---- MODULE Spec2Model ----
(***************************************************************************)
(* Agent orchestration of eugent: the Chat component's submit handler, the *)
(* agentic loop (useAgenticLoop), the single tool-call executor            *)
(* (useToolExecutor), the permission prompt, the message validator and     *)
(* healer, and the abort / general error handlers.                         *)
(*                                                                         *)
(* JavaScript runs one task at a time: the code between two awaits that    *)
(* really suspend (model call, permission promise, asynchronous tool) is   *)
(* one atomic step, and key presses are handled only between such steps.   *)
(***************************************************************************)
EXTENDS Integers, Sequences, FiniteSets, TLC

(***************************************************************************)
(* Bounds of the environment (not program constants).                      *)
(***************************************************************************)
MaxTurns == 2
MaxCalls == 2
Budget == 11
RichCost == 9

(***************************************************************************)
(* Program constants.                                                      *)
(***************************************************************************)
DEFAULT_LOOP_LIMIT == 10
LOOP_LIMIT_EXTENSION == 10

VARIABLES
  messages,             \* Chat: React state `messages` (useConversation)
  isProcessing,         \* Chat: React state
  abortController,      \* Chat: React state, TRUE when a controller is stored
  aborted,              \* controller.signal.aborted of the current turn
  pendingPermission,    \* Chat: React state, NoPermission or a request
  openRequests,         \* number of permission promises not yet resolved
  pc,                   \* where runAgenticLoop is suspended
  conversationHistory,  \* runAgenticLoop local
  loopCount,            \* runAgenticLoop local
  maxLoops,             \* runAgenticLoop local
  toolCalls,            \* response.toolCalls of the current iteration
  tcIndex,              \* position of the for-loop over response.toolCalls
  permissionDenied,     \* runAgenticLoop local
  allowedTools,         \* Chat prop, from the configuration
  trace,                \* history: events of the current turn, in order
  turn,                 \* history: number of user submissions so far
  nextId,               \* next tool-call id the model API hands out
  budget,               \* remaining work of the external model
  input,                \* arguments of a function or tool called on its own
  output,               \* what that call returned, Nothing before the call
  exec,                 \* the executeExecuteCommand invocation under way
  toolContext,          \* executeToolCall locals allToolCalls, lastToolCall
  contexts              \* history: the ToolContext of every executeTool call
                        \* of the current turn, in order

vars == <<messages, isProcessing, abortController, aborted, pendingPermission,
          openRequests, pc, conversationHistory, loopCount, maxLoops,
          toolCalls, tcIndex, permissionDenied, allowedTools, trace, turn,
          nextId, budget, input, output, exec, toolContext,
          contexts>>

(***************************************************************************)
(* Messages and tool calls (lib/core/types.ts).  content is a tag for the  *)
(* text the code writes; toolCallId 0 and name "" stand for "absent".      *)
(***************************************************************************)
Msg(role, content, calls, toolCallId, name) ==
  [role |-> role, content |-> content, toolCalls |-> calls,
   toolCallId |-> toolCallId, name |-> name]

ToolCall(id, name, arguments) ==
  [id |-> id, name |-> name, arguments |-> arguments]

UserMsg == Msg("user", "user text", <<>>, 0, "")
AssistantText(content) == Msg("assistant", content, <<>>, 0, "")
AssistantCalls(calls) == Msg("assistant", "", calls, 0, "")
ToolMsg(name, content, id) == Msg("tool", content, <<>>, id, name)

NoPermission == [toolName |-> "", callId |-> 0]

Ev(e, id) == [e |-> e, id |-> id]

(***************************************************************************)
(* Texts of tool names and raw arguments the model may send.               *)
(***************************************************************************)
ARGS_OK == "{\"file_path\":\"a.txt\"}"
ARGS_EMPTY == "{}"
ARGS_BROKEN == "{"
ARGS_NULL == "null"
ARGS_NUMBER == "5"

ToolNameChars(name) ==
  CASE name = "read_file" -> <<"r","e","a","d","_","f","i","l","e">>
    [] name = "execute_command" ->
         <<"e","x","e","c","u","t","e","_","c","o","m","m","a","n","d">>
    [] name = "continue_execution" ->
         <<"c","o","n","t","i","n","u","e","_","e","x","e","c","u","t","i","o","n">>
    [] name = "list_files()" ->
         <<"l","i","s","t","_","f","i","l","e","s","(",")">>
    [] OTHER -> <<>>

WordChars ==
  {"a","b","c","d","e","f","g","h","i","j","k","l","m","n","o","p","q","r",
   "s","t","u","v","w","x","y","z","A","B","C","D","E","F","G","H","I","J",
   "K","L","M","N","O","P","Q","R","S","T","U","V","W","X","Y","Z","0","1",
   "2","3","4","5","6","7","8","9","_","-"}

\* /^[a-zA-Z0-9_-]+(\.[a-zA-Z0-9_-]+)*$/ : st is "start" before a segment's
\* first character and "in" inside a segment.
RECURSIVE NameRegexFrom(_, _, _)
NameRegexFrom(cs, i, st) ==
  IF i > Len(cs) THEN st = "in"
  ELSE IF cs[i] \in WordChars THEN NameRegexFrom(cs, i + 1, "in")
  ELSE IF cs[i] = "." /\ st = "in" THEN NameRegexFrom(cs, i + 1, "start")
  ELSE FALSE

IncludesDotDot(cs) ==
  \E i \in 1..(Len(cs) - 1) : cs[i] = "." /\ cs[i + 1] = "."

\* mutant: the pattern only asks for allowed characters, not for segments
ToolNameValidLoose(cs) ==
  /\ cs # <<>>
  /\ \A i \in DOMAIN cs : cs[i] \in WordChars \cup {"."}
  /\ ~IncludesDotDot(cs)

\* validateToolName line 19: the test on the characters of the name
ToolNameValid(cs) == NameRegexFrom(cs, 1, "start") /\ ~IncludesDotDot(cs)

validateToolName(name) == ToolNameValid(ToolNameChars(name))

\* JSON.parse of the raw argument text: "object", "null" or "throws".
JsonParse(raw) ==
  CASE raw = ARGS_OK -> "object"
    [] raw = ARGS_EMPTY -> "object"
    [] raw = ARGS_NULL -> "null"
    [] raw = ARGS_NUMBER -> "number"
    [] OTHER -> "throws"

parseToolArguments(raw) == JsonParse(raw) # "throws"

FormatterNames == {"execute_command", "read_file", "write_file", "edit_file",
                   "delete_file", "list_files", "find_files", "grep"}

\* formatToolStatus reads a property of args: a TypeError when args is null.
formatToolStatusThrows(name, raw) ==
  name \in FormatterNames /\ JsonParse(raw) = "null"

\* mutant: no tool ever asks for consent
requiresPermissionNever(name, allowed) == FALSE

requiresPermission(name, allowed) == name \notin allowed

SyncTools == {"read_file"}
AsyncTools == {"execute_command"}

\* executeTool for an executor that returns without suspending.
executeToolSync(name, raw) ==
  IF name \notin (SyncTools \cup AsyncTools) THEN "unknown tool"
  ELSE IF raw = ARGS_OK THEN "result ok"
  ELSE "result error"

(***************************************************************************)
(* validateMessages (lib/validation/messageValidation.ts): one scan that   *)
(* collects errors and warnings and keeps the Set pendingToolCalls.        *)
(***************************************************************************)
ToolCallErrors(calls, i) ==
  {<<"tool call missing id", i>> : k \in {k \in 1..Len(calls) : calls[k].id = 0}}
  \cup
  {<<"tool call missing name", i>> :
     k \in {k \in 1..Len(calls) : calls[k].name = ""}}

\* mutant: announced ids are not collected
ToolCallIdsNone(calls) == {}

ToolCallIds(calls) == {calls[k].id : k \in 1..Len(calls)} \ {0}

RECURSIVE ValidateScan(_, _, _, _, _)
ValidateScan(msgs, i, pend, errs, warns) ==
  IF i > Len(msgs)
  THEN [errors |-> errs \cup (IF pend # {} THEN {<<"no tool response", 0>>}
                                           ELSE {}),
        warnings |-> warns, pending |-> pend]
  ELSE
    LET m == msgs[i]
        prevRole == IF i > 1 THEN msgs[i - 1].role ELSE "" IN
    CASE m.role = "system" ->
           ValidateScan(msgs, i + 1, pend,
             errs \cup (IF m.content = "" THEN {<<"system no content", i>>}
                                         ELSE {}),
             warns \cup (IF i > 1 /\ prevRole # "system"
                         THEN {<<"system after non-system", i>>} ELSE {}))
      [] m.role = "user" ->
           ValidateScan(msgs, i + 1, pend,
             errs \cup (IF m.content = "" THEN {<<"user empty", i>>} ELSE {})
                  \cup (IF prevRole = "user"
                        THEN {<<"user follows user", i>>} ELSE {}),
             warns)
      [] m.role = "assistant" ->
           ValidateScan(msgs, i + 1, pend \cup ToolCallIds(m.toolCalls),
             errs \cup ToolCallErrors(m.toolCalls, i), warns)
      [] m.role = "tool" ->
           ValidateScan(msgs, i + 1,
             IF m.toolCallId # 0 THEN pend \ {m.toolCallId} ELSE pend,
             errs \cup (IF m.name = "" THEN {<<"tool missing name", i>>}
                                      ELSE {})
                  \cup (IF m.toolCallId = 0
                        THEN {<<"tool missing toolCallId", i>>} ELSE {}),
             warns \cup (IF m.toolCallId # 0 /\ m.toolCallId \notin pend
                         THEN {<<"tool id not announced", i>>} ELSE {}))
      [] OTHER ->
           ValidateScan(msgs, i + 1, pend,
             errs \cup {<<"invalid role", i>>}, warns)

validateMessages(msgs) ==
  IF Len(msgs) = 0
  THEN [valid |-> TRUE, errors |-> {}, warnings |-> {}, pending |-> {}]
  ELSE LET r == ValidateScan(msgs, 1, {}, {}, {}) IN
       [valid |-> r.errors = {}, errors |-> r.errors,
        warnings |-> r.warnings, pending |-> r.pending]

(***************************************************************************)
(* healOrphanedToolCalls.  The Map pendingToolCalls is a sequence in       *)
(* insertion order: set() of a present key replaces its value in place.    *)
(***************************************************************************)
MapSet(pend, id, name, index) ==
  IF \E j \in 1..Len(pend) : pend[j].id = id
  THEN [j \in 1..Len(pend) |->
          IF pend[j].id = id
          THEN [id |-> id, name |-> name, index |-> index] ELSE pend[j]]
  ELSE Append(pend, [id |-> id, name |-> name, index |-> index])

\* mutant: a tool message does not clear its id
MapDeleteNothing(pend, id) == pend

MapDelete(pend, id) ==
  LET Keep(p) == p.id # id IN SelectSeq(pend, Keep)

RECURSIVE MapSetAll(_, _, _, _)
MapSetAll(pend, calls, k, index) ==
  IF k > Len(calls) THEN pend
  ELSE MapSetAll(
         IF calls[k].id # 0 /\ calls[k].name # ""
         THEN MapSet(pend, calls[k].id, calls[k].name, index) ELSE pend,
         calls, k + 1, index)

RECURSIVE HealScan(_, _, _)
HealScan(msgs, i, pend) ==
  IF i > Len(msgs) THEN pend
  ELSE
    LET m == msgs[i]
        p1 == IF m.role = "assistant" /\ Len(m.toolCalls) > 0
              THEN MapSetAll(pend, m.toolCalls, 1, i) ELSE pend
        p2 == IF m.role = "tool" /\ m.toolCallId # 0
              THEN MapDelete(p1, m.toolCallId) ELSE p1
    IN HealScan(msgs, i + 1, p2)

OrphanMessages(pend, index) ==
  LET AtIndex(p) == p.index = index
      orphans == SelectSeq(pend, AtIndex) IN
  [k \in 1..Len(orphans) |->
     ToolMsg(orphans[k].name, "orphaned", orphans[k].id)]

SpliceAfter(msgs, index, ins) ==
  SubSeq(msgs, 1, index) \o ins \o SubSeq(msgs, index + 1, Len(msgs))

MaxOf(S) == CHOOSE x \in S : \A y \in S : y <= x

\* splices in descending index order
RECURSIVE HealSplice(_, _, _)
HealSplice(healed, pend, indices) ==
  IF indices = {} THEN healed
  ELSE LET a == MaxOf(indices) IN
       HealSplice(SpliceAfter(healed, a, OrphanMessages(pend, a)), pend,
                  indices \ {a})

healOrphanedToolCalls(msgs) ==
  LET pend == HealScan(msgs, 1, <<>>) IN
  IF Len(pend) = 0 THEN msgs
  ELSE HealSplice(msgs, pend, {pend[j].index : j \in 1..Len(pend)})

(***************************************************************************)
(* buildMessagesForAPI (useConversation): the system prompt first, then    *)
(* the history; throws "Invalid message structure" when validation fails.  *)
(***************************************************************************)
SystemPrompt == Msg("system", "system prompt", <<>>, 0, "")

buildMessagesForAPIThrows(history) ==
  ~validateMessages(<<SystemPrompt>> \o history).valid

(***************************************************************************)
(* handleAbortError and handleGeneralError (lib/chat/errorHandlers.ts).    *)
(***************************************************************************)
handleAbortError(msgs) ==
  LET last == IF Len(msgs) > 0 THEN msgs[Len(msgs)] ELSE SystemPrompt IN
  IF Len(msgs) > 0 /\ last.role = "assistant" /\ Len(last.toolCalls) > 0
  THEN msgs
       \o [k \in 1..Len(last.toolCalls) |->
             ToolMsg(last.toolCalls[k].name, "aborted", last.toolCalls[k].id)]
       \o <<AssistantText("interrupted")>>
  ELSE Append(msgs, AssistantText("interrupted"))

handleGeneralError == AssistantText("error")

\* a path text (lib/security/pathValidator.ts): rooted or not, and segments
Path(abs, segs) == [abs |-> abs, segs |-> segs]

(***************************************************************************)
(* Tool results.  The content of a tool message is a JSON text; the        *)
(* consumers parse it and look at the value of its `error` key.            *)
(***************************************************************************)
ResultTexts ==
  {"{\"content\":\"xy\"}", "{\"error\":\"File not found\"}", "{\"error\":0}",
   "{\"error\":\"\"}", "{\"error\":null}", "{\"content\"", ""}

\* JSON.parse of a result text: TRUE when it throws
ResultParseThrows(text) == text \in {"{\"content\"", ""}

\* JSON.parse(text).error: "undefined" when the key is absent
ResultError(text) ==
  CASE text = "{\"error\":\"File not found\"}" -> "text"
    [] text = "{\"error\":0}" -> "zero"
    [] text = "{\"error\":\"\"}" -> "empty"
    [] text = "{\"error\":null}" -> "null"
    [] OTHER -> "undefined"

\* JavaScript truthiness of such a value
Truthy(value) == value = "text"

\* toolArgs of a tool message; undefined on messages that carry none
ToolArgs(file_path, read_for_write) ==
  [defined |-> TRUE, file_path |-> file_path,
   read_for_write |-> read_for_write]

NoToolArgs ==
  [defined |-> FALSE, file_path |-> Path(FALSE, <<>>),
   read_for_write |-> FALSE]

ToolResult(name, content, toolArgs) ==
  [role |-> "tool", name |-> name, content |-> content,
   toolArgs |-> toolArgs]

\* mutant: the error key of the result is not looked at
SucceededWithError(msg) ==
  /\ msg.role = "tool"
  /\ msg.toolArgs.defined
  /\ msg.content # ""
  /\ ~ResultParseThrows(msg.content)

\* extractToolCallHistory lines 77-92: the test a message has to pass
Succeeded(msg) ==
  /\ msg.role = "tool"
  /\ msg.toolArgs.defined
  /\ msg.content # ""
  /\ ~ResultParseThrows(msg.content)
  /\ ResultError(msg.content) = "undefined"

RECURSIVE CallsOfMessages(_)
CallsOfMessages(msgs) ==
  IF msgs = <<>> THEN <<>>
  ELSE <<[name |-> Head(msgs).name, args |-> Head(msgs).toolArgs]>>
       \o CallsOfMessages(Tail(msgs))

extractToolCallHistory(msgs) ==
  LET allToolCalls == CallsOfMessages(SelectSeq(msgs, Succeeded)) IN
  [allToolCalls |-> allToolCalls,
   lastToolCall |-> IF allToolCalls = <<>> THEN <<>>
                    ELSE <<allToolCalls[Len(allToolCalls)]>>]

\* context builder line 203: JSON.parse(msg.content || '{}'), !result.error
BuilderSucceeded(msg) ==
  LET text == IF msg.content = "" THEN "{}" ELSE msg.content IN
  /\ msg.role = "tool"
  /\ msg.toolArgs.defined
  /\ ~ResultParseThrows(text)
  /\ ~Truthy(ResultError(text))

\* executeToolCall lines 121-126 and context builder lines 231-235:
\* JSON.parse(toolResult), !result.error
ResultSucceeded(toolResult) ==
  ~ResultParseThrows(toolResult) /\ ~Truthy(ResultError(toolResult))

\* The tool messages of the transcript as extractToolCallHistory reads
\* them.  content is the JSON text the tag stands for: only a tool's own
\* success has no error key.  toolArgs is the parsed argument text on the
\* messages executeToolCall builds (lines 113-119) and {} on the messages of
\* the validators, of handleAbortError and of the healer.
ToolResults(hist) ==
  LET Calls(j) == {<<i, k>> : i \in 1..j, k \in 1..MaxCalls + 1}
      empty == [defined |-> TRUE, file_path |-> Path(FALSE, <<>>),
                read_for_write |-> FALSE]
      Read(h) ==
        [j \in DOMAIN h |->
           LET msg == h[j]
               c == CHOOSE c \in Calls(j) :
                      /\ c[2] \in DOMAIN h[c[1]].toolCalls
                      /\ h[c[1]].toolCalls[c[2]].id = msg.toolCallId
               raw == h[c[1]].toolCalls[c[2]].arguments
           IN  IF msg.role # "tool"
               THEN [role |-> msg.role, name |-> msg.name,
                     content |-> msg.content, toolArgs |-> NoToolArgs]
               ELSE ToolResult(
                      msg.name,
                      IF msg.content = "result ok"
                      THEN "{\"content\":\"xy\"}"
                      ELSE "{\"error\":\"File not found\"}",
                      IF msg.content \in {"result ok", "result error",
                                          "unknown tool", "permission denied"}
                         /\ raw = ARGS_OK
                      THEN ToolArgs(Path(FALSE, <<"a.txt">>), FALSE)
                      ELSE empty)]
  IN  CHOOSE results \in {Read(h) : h \in {hist}} : TRUE

\* No ToolContext was built yet.
NoContext == [allToolCalls |-> <<>>, lastToolCall |-> <<>>]

(***************************************************************************)
(* The state a synchronous stretch of runAgenticLoop works on, as a record *)
(* of the variables it may change.                                         *)
(***************************************************************************)
Cur ==
  [pc |-> pc, hist |-> conversationHistory, msgs |-> messages,
   calls |-> toolCalls, idx |-> tcIndex, lc |-> loopCount, ml |-> maxLoops,
   den |-> permissionDenied, pend |-> pendingPermission,
   open |-> openRequests, proc |-> isProcessing, ctl |-> abortController,
   ab |-> aborted, tr |-> trace, ctx |-> toolContext, passed |-> contexts]

Becomes(s) ==
  \E r \in {s} :
    /\ pc' = r.pc
    /\ conversationHistory' = r.hist
    /\ messages' = r.msgs
    /\ toolCalls' = r.calls
    /\ tcIndex' = r.idx
    /\ loopCount' = r.lc
    /\ maxLoops' = r.ml
    /\ permissionDenied' = r.den
    /\ pendingPermission' = r.pend
    /\ openRequests' = r.open
    /\ isProcessing' = r.proc
    /\ abortController' = r.ctl
    /\ aborted' = r.ab
    /\ trace' = r.tr
    /\ toolContext' = r.ctx
    /\ contexts' = r.passed

Log(s, e, id) == [s EXCEPT !.tr = Append(@, Ev(e, id))]

\* handleSubmit's finally block: the turn is over and the controller is
\* dropped (its signal can no longer be observed).
Finally(s, how) ==
  Log([s EXCEPT !.pc = "idle", !.proc = FALSE, !.ctl = FALSE, !.ab = FALSE],
      how, 0)

\* runAgenticLoop throws an AbortError: handleSubmit's catch repairs the
\* React state with handleAbortError.
ThrowAbort(s) ==
  Finally([s EXCEPT !.msgs = handleAbortError(s.msgs)], "end abort")

\* mutant: the catch appends nothing for an exception other than an abort
ThrowErrorSilent(s) == Finally(s, "end error")

\* any other exception: handleSubmit's catch appends handleGeneralError.
ThrowError(s) ==
  Finally([s EXCEPT !.msgs = Append(s.msgs, handleGeneralError)], "end error")

\* requestPermission (Chat): a new promise, stored in pendingPermission.
requestPermission(s, toolName, id, at) ==
  Log([s EXCEPT !.pend = [toolName |-> toolName, callId |-> id],
                !.open = @ + 1, !.pc = at], "request", id)

\* the promise resolves: .finally clears pendingPermission.
ResolvePermission(s) ==
  [s EXCEPT !.pend = NoPermission, !.open = @ - 1]

\* mutant: the cap test is off by one (> for >=)
LoopTopOffByOne(s) ==
  IF s.ab THEN ThrowAbort(s)
  ELSE IF s.lc > s.ml
  THEN requestPermission(s, "continue_execution", 0, "awaitContinue")
  ELSE [s EXCEPT !.lc = @ + 1, !.pc = "modelCall"]

\* lines 68-92: the head of the while loop.
LoopTop(s) ==
  IF s.ab THEN ThrowAbort(s)
  ELSE IF s.lc >= s.ml
  THEN requestPermission(s, "continue_execution", 0, "awaitContinue")
  ELSE [s EXCEPT !.lc = @ + 1, !.pc = "modelCall"]

\* lines 150-188: after the for loop over the tool calls.
AfterTools(s) ==
  LET s1 == [s EXCEPT !.msgs = s.hist] IN
  IF s.ab THEN ThrowAbort(s1)
  ELSE IF s1.den THEN [s1 EXCEPT !.pc = "finalCall"]
  ELSE LoopTop(s1)

PushTool(s, content) ==
  LET tc == s.calls[s.idx] IN
  Log([s EXCEPT !.hist = Append(@, ToolMsg(tc.name, content, tc.id))],
      "toolmsg", tc.id)

RECURSIVE ToolLoop(_)

\* the loop body after executeToolCall returned a tool message (lines
\* 139-147).
ToolReturned(s, content, denied) ==
  LET s1 == PushTool(s, content) IN
  IF denied THEN AfterTools([s1 EXCEPT !.den = TRUE])
  ELSE ToolLoop([s1 EXCEPT !.idx = @ + 1])

\* executeTool (tools/registry.ts) from executeToolCall: an asynchronous
\* executor suspends the loop, except execute_command with a signal that is
\* already aborted, which resolves at once.
Dispatch(s) ==
  LET tc == s.calls[s.idx]
      s1 == Log([s EXCEPT !.passed = Append(@, s.ctx)], "dispatch", tc.id) IN
  IF tc.name \in AsyncTools /\ ~s.ab
  THEN [s1 EXCEPT !.pc = "executing"]
  ELSE IF tc.name \in AsyncTools
  THEN ToolReturned(s1, "result error", FALSE)
  ELSE ToolReturned(s1, executeToolSync(tc.name, tc.arguments), FALSE)

\* mutant: a validation failure ends the for loop
executeToolCallBreaks(s) ==
  LET tc == s.calls[s.idx]
      s0 == Log(s, "preprocess", tc.id)
      s1 == [s0 EXCEPT
               !.ctx = extractToolCallHistory(ToolResults(s0.hist))] IN
  IF ~validateToolName(tc.name)
  THEN AfterTools(PushTool(s0, "invalid tool name"))
  ELSE IF ~parseToolArguments(tc.arguments)
  THEN AfterTools(PushTool(s0, "invalid json"))
  ELSE IF formatToolStatusThrows(tc.name, tc.arguments)
  THEN ThrowError(s0)
  ELSE IF requiresPermission(tc.name, allowedTools)
  THEN requestPermission(s1, tc.name, tc.id, "awaitPermission")
  ELSE Dispatch(s1)

\* mutant: a validation failure moves on without appending its message
executeToolCallNoPush(s) ==
  LET tc == s.calls[s.idx]
      s0 == Log(s, "preprocess", tc.id)
      s1 == [s0 EXCEPT
               !.ctx = extractToolCallHistory(ToolResults(s0.hist))] IN
  IF ~validateToolName(tc.name) \/ ~parseToolArguments(tc.arguments)
  THEN ToolLoop([s0 EXCEPT !.idx = @ + 1])
  ELSE IF formatToolStatusThrows(tc.name, tc.arguments)
  THEN ThrowError(s0)
  ELSE IF requiresPermission(tc.name, allowedTools)
  THEN requestPermission(s1, tc.name, tc.id, "awaitPermission")
  ELSE Dispatch(s1)

\* executeToolCall (useToolExecutor) up to its first suspension, with the
\* loop's handling of a validation failure (lines 133-137).
executeToolCall(s) ==
  LET tc == s.calls[s.idx]
      s0 == Log(s, "preprocess", tc.id)
      s1 == [s0 EXCEPT
               !.ctx = extractToolCallHistory(ToolResults(s0.hist))] IN
  IF ~validateToolName(tc.name)
  THEN ToolLoop([PushTool(s0, "invalid tool name") EXCEPT !.idx = @ + 1])
  ELSE IF ~parseToolArguments(tc.arguments)
  THEN ToolLoop([PushTool(s0, "invalid json") EXCEPT !.idx = @ + 1])
  ELSE IF formatToolStatusThrows(tc.name, tc.arguments)
  THEN ThrowError(s0)
  ELSE IF requiresPermission(tc.name, allowedTools)
  THEN requestPermission(s1, tc.name, tc.id, "awaitPermission")
  ELSE Dispatch(s1)

\* lines 120-148: the for loop, from position s.idx.
ToolLoop(s) ==
  IF s.idx > Len(s.calls) THEN AfterTools(s)
  ELSE IF s.ab THEN ThrowAbort(s)
  ELSE executeToolCall(s)

(***************************************************************************)
(* What the external model may answer: every list of 1..MaxCalls calls     *)
(* from CallKinds.  A response other than the plain one costs RichCost of  *)
(* the model's budget, a plain one costs 1.                                *)
(***************************************************************************)
CallKinds ==
  {[name |-> "read_file", arguments |-> ARGS_OK],
   [name |-> "read_file", arguments |-> ARGS_EMPTY],
   [name |-> "read_file", arguments |-> ARGS_BROKEN],
   [name |-> "read_file", arguments |-> ARGS_NULL],
   [name |-> "execute_command", arguments |-> ARGS_OK],
   [name |-> "continue_execution", arguments |-> ARGS_OK],
   [name |-> "list_files()", arguments |-> ARGS_OK],
   [name |-> "", arguments |-> ARGS_OK]}

PlainKinds == <<[name |-> "read_file", arguments |-> ARGS_OK]>>

Proposals == UNION {[1..n -> CallKinds] : n \in 1..MaxCalls}

Cost(kinds) == IF kinds = PlainKinds THEN 1 ELSE RichCost

WithIds(kinds, first) ==
  [k \in 1..Len(kinds) |->
     ToolCall(first + k - 1, kinds[k].name, kinds[k].arguments)]

AllowLists == {{"read_file"}, {"read_file", "execute_command"}, {}}

\* No function or tool is being called on its own.
Nothing == [op |-> "none"]

\* No command is being executed.
NoExec == [pc |-> "none"]

\* The Chat component after construction, before the first submission.
AtRest ==
  /\ messages = <<>>
  /\ isProcessing = FALSE
  /\ abortController = FALSE
  /\ aborted = FALSE
  /\ pendingPermission = NoPermission
  /\ openRequests = 0
  /\ pc = "idle"
  /\ conversationHistory = <<>>
  /\ loopCount = 0
  /\ maxLoops = DEFAULT_LOOP_LIMIT
  /\ toolCalls = <<>>
  /\ tcIndex = 1
  /\ permissionDenied = FALSE
  /\ trace = <<>>
  /\ turn = 0
  /\ nextId = 1
  /\ budget = Budget
  /\ toolContext = NoContext
  /\ contexts = <<>>

Init ==
  /\ AtRest
  /\ allowedTools \in AllowLists
  /\ input = Nothing
  /\ output = Nothing
  /\ exec = NoExec

\* mutant: a submission is accepted while a turn is processing
SubmitGuardOff == TRUE

\* handleSubmit line 346: nothing is started while a turn is processing.
SubmitGuard == ~isProcessing

\* handleSubmit (Chat) with the start of runAgenticLoop (lines 52-66) up to
\* the first suspension.
HandleSubmit ==
  /\ SubmitGuard
  /\ turn < MaxTurns
  /\ turn' = turn + 1
  /\ LET healed == healOrphanedToolCalls(messages)
         history == Append(healed, UserMsg) IN
     Becomes(LoopTop([Cur EXCEPT
       !.proc = TRUE, !.ctl = TRUE, !.ab = FALSE, !.hist = history,
       !.msgs = history, !.lc = 0, !.ml = DEFAULT_LOOP_LIMIT,
       !.calls = <<>>, !.idx = 1, !.den = FALSE, !.tr = <<>>,
       !.passed = <<>>]))
  /\ UNCHANGED <<input, output, exec, allowedTools, nextId, budget>>

\* useChatInput: ESC while processing aborts the controller.
PressEscape ==
  /\ isProcessing
  /\ abortController
  /\ aborted' = TRUE
  /\ trace' = IF aborted THEN trace ELSE Append(trace, Ev("esc", 0))
  /\ UNCHANGED <<messages, isProcessing, abortController, pendingPermission,
                 openRequests, pc, conversationHistory, loopCount, maxLoops,
                 toolCalls, tcIndex, permissionDenied, allowedTools, turn,
                 nextId, budget, input, output, exec, toolContext,
                 contexts>>

\* buildMessagesForAPI threw before any request was sent.
InvalidStructure(s) == ThrowError(Log(s, "invalid", 0))

\* client.chat was called and rejected.
ChatRejects(s, call) == ThrowError(Log(Log(s, call, 0), "reject", 0))

\* lines 94-105 fail: buildMessagesForAPI throws on an invalid history, or
\* client.chat rejects (MistralClient.chat wraps every failure, the abort of
\* the fetch included, in a plain Error).
ModelCallFails ==
  /\ pc = "modelCall"
  /\ IF buildMessagesForAPIThrows(conversationHistory)
     THEN Becomes(InvalidStructure(Cur))
     ELSE Becomes(ChatRejects(Cur, "chat"))
  /\ UNCHANGED <<input, output, exec, allowedTools, turn, nextId, budget>>

\* lines 189-199: a response without tool calls.
ModelAnswersText ==
  /\ pc = "modelCall"
  /\ ~buildMessagesForAPIThrows(conversationHistory)
  /\ ~aborted
  /\ LET history == Append(conversationHistory, AssistantText("final")) IN
     Becomes(Finally([Log(Cur, "chat", 0) EXCEPT
                        !.hist = history, !.msgs = history], "end done"))
  /\ UNCHANGED <<input, output, exec, allowedTools, turn, nextId, budget>>

\* lines 107-148: a response with tool calls, up to the first suspension.
ModelProposesTools ==
  /\ pc = "modelCall"
  /\ ~buildMessagesForAPIThrows(conversationHistory)
  /\ ~aborted
  /\ \E kinds \in Proposals :
       /\ Cost(kinds) <= budget
       /\ budget' = budget - Cost(kinds)
       /\ nextId' = nextId + Len(kinds)
       /\ LET calls == WithIds(kinds, nextId)
              history == Append(conversationHistory, AssistantCalls(calls))
          IN Becomes(ToolLoop([Log(Cur, "chat", 0) EXCEPT
               !.hist = history, !.msgs = history, !.calls = calls,
               !.idx = 1, !.den = FALSE]))
  /\ UNCHANGED <<input, output, exec, allowedTools, turn>>

\* an asynchronous tool resolves (executeToolCall lines 98-140).
ToolCompletes ==
  /\ pc = "executing"
  /\ \E content \in {"result ok", "result error"} :
       Becomes(ToolReturned(Cur, content, FALSE))
  /\ UNCHANGED <<input, output, exec, allowedTools, turn, nextId, budget>>

\* PermissionPrompt 'y' for a tool: executeToolCall lines 97-102.
UserGrantsTool ==
  /\ pc = "awaitPermission"
  /\ pendingPermission # NoPermission
  /\ Becomes(Dispatch(Log(ResolvePermission(Cur), "grant",
                          pendingPermission.callId)))
  /\ UNCHANGED <<input, output, exec, allowedTools, turn, nextId, budget>>

\* PermissionPrompt 'n' for a tool: executeToolCall lines 92-96.
UserDeniesTool ==
  /\ pc = "awaitPermission"
  /\ pendingPermission # NoPermission
  /\ Becomes(ToolReturned(Log(ResolvePermission(Cur), "deny",
                              pendingPermission.callId),
                          "permission denied", TRUE))
  /\ UNCHANGED <<input, output, exec, allowedTools, turn, nextId, budget>>

\* PermissionPrompt 'y' for continue_execution: lines 80-92.
UserGrantsContinue ==
  /\ pc = "awaitContinue"
  /\ pendingPermission # NoPermission
  /\ Becomes([Log(ResolvePermission(Cur), "grant", 0) EXCEPT
                !.ml = @ + LOOP_LIMIT_EXTENSION, !.lc = @ + 1,
                !.pc = "modelCall"])
  /\ UNCHANGED <<input, output, exec, allowedTools, turn, nextId, budget>>

\* mutant: the denial appends the message but does not leave the loop
UserDeniesContinueNoBreak ==
  /\ pc = "awaitContinue"
  /\ pendingPermission # NoPermission
  /\ LET history == Append(conversationHistory, AssistantText("limit")) IN
     Becomes([Log(ResolvePermission(Cur), "deny", 0) EXCEPT
                !.hist = history, !.msgs = history, !.lc = @ + 1,
                !.pc = "modelCall"])
  /\ UNCHANGED <<input, output, exec, allowedTools, turn, nextId, budget>>

\* PermissionPrompt 'n' for continue_execution: lines 82-89, then line 202.
UserDeniesContinue ==
  /\ pc = "awaitContinue"
  /\ pendingPermission # NoPermission
  /\ LET history == Append(conversationHistory, AssistantText("limit")) IN
     Becomes(Finally([Log(ResolvePermission(Cur), "deny", 0) EXCEPT
                        !.hist = history, !.msgs = history], "end limit"))
  /\ UNCHANGED <<input, output, exec, allowedTools, turn, nextId, budget>>

\* lines 162-173 fail after a denial: buildMessagesForAPI throws or
\* client.chat rejects.
FinalCallFails ==
  /\ pc = "finalCall"
  /\ IF buildMessagesForAPIThrows(conversationHistory)
     THEN Becomes(InvalidStructure(Cur))
     ELSE Becomes(ChatRejects(Cur, "finalchat"))
  /\ UNCHANGED <<input, output, exec, allowedTools, turn, nextId, budget>>

\* lines 167-186: the model reacts to the denial; its tool calls, if any,
\* are ignored.
FinalCallAnswers ==
  /\ pc = "finalCall"
  /\ ~buildMessagesForAPIThrows(conversationHistory)
  /\ ~aborted
  /\ LET history == Append(conversationHistory, AssistantText("final")) IN
     Becomes(Finally([Log(Cur, "finalchat", 0) EXCEPT
                        !.hist = history, !.msgs = history], "end denied"))
  /\ UNCHANGED <<input, output, exec, allowedTools, turn, nextId, budget>>

Next ==
  \/ HandleSubmit
  \/ PressEscape
  \/ ModelCallFails
  \/ ModelAnswersText
  \/ ModelProposesTools
  \/ ToolCompletes
  \/ UserGrantsTool
  \/ UserDeniesTool
  \/ UserGrantsContinue
  \/ UserDeniesContinue
  \/ FinalCallFails
  \/ FinalCallAnswers

Spec == Init /\ [][Next]_vars

\* Requests to the model and asynchronous tools end by themselves (they
\* answer, fail or time out); nothing obliges the human to press a key.
LoopStep ==
  \/ ModelCallFails
  \/ ModelAnswersText
  \/ ModelProposesTools
  \/ ToolCompletes
  \/ FinalCallFails
  \/ FinalCallAnswers

FairSpec == Spec /\ WF_vars(LoopStep)

(***************************************************************************)
(* Reading the transcript and the trace.                                   *)
(***************************************************************************)
CallsOf(msgs) ==
  {<<i, k>> : i \in DOMAIN msgs, k \in 1..MaxCalls + 1} \cap
  UNION {{<<i, k>> : k \in DOMAIN msgs[i].toolCalls} : i \in DOMAIN msgs}

AnswersAfter(msgs, i, id) ==
  {j \in DOMAIN msgs :
     j > i /\ msgs[j].role = "tool" /\ msgs[j].toolCallId = id}

Unanswered(msgs) ==
  {c \in CallsOf(msgs) :
     AnswersAfter(msgs, c[1], msgs[c[1]].toolCalls[c[2]].id) = {}}

AnsweredExactlyOnce(msgs) ==
  \A c \in CallsOf(msgs) :
    Cardinality(AnswersAfter(msgs, c[1], msgs[c[1]].toolCalls[c[2]].id)) = 1

Events(e) == {i \in DOMAIN trace : trace[i].e = e}
ToolEvents(e) == {i \in Events(e) : trace[i].id # 0}
LoopEvents(e) == {i \in Events(e) : trace[i].id = 0}
EndedWith(how) == Len(trace) > 0 /\ trace[Len(trace)].e = how
Last(msgs) == msgs[Len(msgs)]

\* C1: every tool call of an assistant message the loop appended has exactly
\* one tool message with its toolCallId after it, whenever the loop is about
\* to call the model again and whenever the turn has ended.
C1_EveryCallAnsweredOnce ==
  /\ pc = "modelCall" => AnsweredExactlyOnce(conversationHistory)
  /\ pc = "idle" => AnsweredExactlyOnce(messages)

\* C2: a turn in which the user denied a tool call, and which was neither
\* cancelled nor hit by a failing model request, ends with exactly one model
\* call after the denial, that response appended as an assistant message
\* without tool calls, and no tool dispatched after the denial.
C2_DenialThenOneFinalCall ==
  (/\ pc = "idle"
   /\ ToolEvents("deny") # {}
   /\ Events("esc") = {}
   /\ Events("reject") = {})
  => \A d \in ToolEvents("deny") :
       /\ Cardinality({i \in Events("chat") \cup Events("finalchat") : i > d})
            = 1
       /\ {i \in Events("dispatch") : i > d} = {}
       /\ EndedWith("end denied")
       /\ Last(messages) = AssistantText("final")

\* C3: after a turn that ended with the abort outcome, the transcript holds
\* no announced tool-call id without a matching later tool message.
C3_AbortLeavesNoOrphan ==
  (pc = "idle" /\ EndedWith("end abort")) => Unanswered(messages) = {}

NameOfCall(id) ==
  LET c == CHOOSE c \in CallsOf(conversationHistory) :
             conversationHistory[c[1]].toolCalls[c[2]].id = id
  IN conversationHistory[c[1]].toolCalls[c[2]].name

\* C4: a tool is dispatched for a call only if its name is in the allow-list
\* or a permission request for that call was granted before; a denied call
\* is never dispatched and is answered with the permission-denied message.
C4_DispatchOnlyAllowedOrGranted ==
  /\ \A i \in Events("dispatch") :
       \/ NameOfCall(trace[i].id) \in allowedTools
       \/ \E g \in Events("grant"), r \in Events("request") :
            /\ r < g /\ g < i
            /\ trace[g].id = trace[i].id /\ trace[r].id = trace[i].id
  /\ \A d \in ToolEvents("deny") :
       /\ \A i \in Events("dispatch") : trace[i].id # trace[d].id
       /\ \E j \in DOMAIN conversationHistory :
            conversationHistory[j] =
              ToolMsg(NameOfCall(trace[d].id), "permission denied",
                      trace[d].id)

C4_Witness ==
  \E i \in Events("dispatch"), g \in Events("grant"), d \in ToolEvents("deny") :
    trace[g].id = trace[i].id /\ g < i /\ i < d

\* C5: at every moment at most one permission promise is unresolved.
C5_AtMostOneRequest == openRequests <= 1

C5_Witness ==
  openRequests = 1 /\ aborted /\ turn = 2 /\ pendingPermission # NoPermission

\* C6: once the turn's signal is aborted while a permission request is
\* outstanding, the request is eventually resolved without a y/n key.
C6_CancelResolvesRequest ==
  (aborted /\ openRequests > 0) ~> (openRequests = 0)

\* C7: a turn that ends while a model request is in flight and the signal is
\* aborted ends with the abort outcome ("[Request interrupted by user]").
C7_AbortDuringModelCall ==
  [][(/\ pc \in {"modelCall", "finalCall"}
      /\ aborted
      /\ ~buildMessagesForAPIThrows(conversationHistory)
      /\ pc' = "idle")
     => (/\ trace'[Len(trace')].e = "end abort"
         /\ messages'[Len(messages')] = AssistantText("interrupted"))]_vars

\* C8: the iterations started never exceed the cap, and the cap is 10 plus
\* 10 for each continue_execution request of the loop that the user granted.
C8_IterationsWithinCap ==
  /\ loopCount <= maxLoops
  /\ Cardinality(Events("chat")) <= loopCount
  /\ maxLoops = DEFAULT_LOOP_LIMIT
                + LOOP_LIMIT_EXTENSION * Cardinality(LoopEvents("grant"))

C8_Witness == maxLoops = 20 /\ loopCount = 11 /\ pc = "modelCall"

\* C9: when the user denies the loop's continue_execution request, the loop
\* appends one limit-reached assistant message and the turn ends at once: no
\* model call and no dispatch follows.
C9_CapDenialEndsTurn ==
  \A d \in LoopEvents("deny") :
    /\ d = Len(trace) - 1
    /\ EndedWith("end limit")
    /\ pc = "idle" /\ ~isProcessing
    /\ messages = conversationHistory
    /\ Last(messages) = AssistantText("limit")
    /\ messages[Len(messages) - 1] # AssistantText("limit")

C9_Witness == LoopEvents("deny") # {} /\ loopCount = DEFAULT_LOOP_LIMIT

PositionOfAnswer(id) ==
  CHOOSE j \in DOMAIN conversationHistory :
    conversationHistory[j].role = "tool"
    /\ conversationHistory[j].toolCallId = id

\* C10: the tool calls of one assistant message run one at a time in the
\* proposed order: preprocessing, permission request and dispatch of a call
\* start only after the tool message of the call before it was appended, and
\* the tool messages stand in the transcript in execution order.
C10_ToolCallsSequential ==
  /\ \A k \in 2..Len(toolCalls) :
       \A j \in Events("preprocess") \cup Events("request")
                \cup Events("dispatch") :
         trace[j].id = toolCalls[k].id =>
           \E i \in Events("toolmsg") :
             i < j /\ trace[i].id = toolCalls[k - 1].id
  /\ \A i \in Events("toolmsg") :
       \E j \in DOMAIN conversationHistory :
         /\ conversationHistory[j].role = "tool"
         /\ conversationHistory[j].toolCallId = trace[i].id
  /\ \A i, j \in Events("toolmsg") :
       i < j => PositionOfAnswer(trace[i].id) < PositionOfAnswer(trace[j].id)

C10_Witness ==
  /\ Len(toolCalls) = 2
  /\ \E i, j \in Events("dispatch") :
       trace[i].id = toolCalls[1].id /\ trace[j].id = toolCalls[2].id

(***************************************************************************)
(* Bounds of the inputs of functions and tools called on their own.        *)
(***************************************************************************)
MaxSegs == 3
MaxHistory == 2
MaxLen == 3
MaxIds == 2
MaxNameLen == 3

(***************************************************************************)
(* Paths (lib/security/pathValidator.ts).  A path text is its sequence of  *)
(* segments and whether it starts at the root; the texts that the code     *)
(* compares with startsWith are spelled out character by character.        *)
(***************************************************************************)
\* process.cwd() of the running program
Cwd == <<"home", "proj">>

SegChars(seg) ==
  CASE seg = "home" -> <<"h", "o", "m", "e">>
    [] seg = "proj" -> <<"p", "r", "o", "j">>
    [] seg = "proj2" -> <<"p", "r", "o", "j", "2">>
    [] seg = ".eugent" -> <<".", "e", "u", "g", "e", "n", "t">>
    [] seg = "a.txt" -> <<"a", ".", "t", "x", "t">>
    [] seg = "b.txt" -> <<"b", ".", "t", "x", "t">>
    [] seg = ".." -> <<".", ".">>
    [] seg = "." -> <<".">>
    [] OTHER -> <<>>

\* path.normalize on segments: "." is dropped, ".." removes the segment
\* before it and stays at the root.
RECURSIVE Normalize(_, _)
Normalize(segs, acc) ==
  IF segs = <<>> THEN acc
  ELSE LET h == Head(segs) IN
       Normalize(Tail(segs),
                 IF h = "." THEN acc
                 ELSE IF h = ".."
                      THEN IF acc = <<>> THEN acc
                           ELSE SubSeq(acc, 1, Len(acc) - 1)
                      ELSE Append(acc, h))

\* path.resolve(from, p) for an absolute `from`
resolve(from, p) ==
  IF p.abs THEN Normalize(p.segs, <<>>) ELSE Normalize(p.segs, from)

\* the text of an absolute path
RECURSIVE AbsChars(_)
AbsChars(segs) ==
  IF segs = <<>> THEN <<>>
  ELSE <<"/">> \o SegChars(Head(segs)) \o AbsChars(Tail(segs))

\* the text of a relative path
RelChars(segs) ==
  IF segs = <<>> THEN <<>>
  ELSE SegChars(Head(segs)) \o AbsChars(Tail(segs))

\* String.prototype.startsWith
startsWith(text, prefix) ==
  Len(prefix) <= Len(text) /\ SubSeq(text, 1, Len(prefix)) = prefix

\* path.relative(from, to) for two normalised absolute paths
relative(from, to) ==
  LET common == {k \in 0..Len(from) :
                   k <= Len(to) /\ \A i \in 1..k : from[i] = to[i]}
      k == CHOOSE x \in common : \A y \in common : y <= x
  IN  [i \in 1..(Len(from) - k) |-> ".."] \o SubSeq(to, k + 1, Len(to))

validatePath(inputPath) ==
  LET absolutePath == resolve(Cwd, inputPath) IN
  IF ~startsWith(AbsChars(absolutePath), AbsChars(Cwd))
  THEN [valid |-> FALSE, absolutePath |-> <<>>,
        error |-> "outside the current directory"]
  ELSE [valid |-> TRUE, absolutePath |-> absolutePath, error |-> ""]

blockEugentDirectory(absolutePath) ==
  LET relativePath == RelChars(relative(Cwd, absolutePath)) IN
  \/ startsWith(relativePath, SegChars(".eugent") \o <<"/">>)
  \/ relativePath = SegChars(".eugent")

(***************************************************************************)
(* The disk: what lies at each absolute path (file, directory, nothing),   *)
(* the content of a file as a sequence of characters, and whether a        *)
(* .gitignore pattern matches the path.                                    *)
(***************************************************************************)
File(content) == [kind |-> "file", content |-> content, ignored |-> FALSE]
Dir == [kind |-> "directory", content |-> <<>>, ignored |-> FALSE]

At(disk, absolutePath) ==
  IF absolutePath \in DOMAIN disk THEN disk[absolutePath]
  ELSE [kind |-> "none", content |-> <<>>, ignored |-> FALSE]

existsSync(disk, absolutePath) == At(disk, absolutePath).kind # "none"

checkGitignoreAccess(disk, absolutePath, includeGitignored) ==
  includeGitignored \/ ~At(disk, absolutePath).ignored

\* validateFilePath and validateDirectoryPath: validatePath, then
\* blockEugentDirectory, validateResourceType and checkGitignoreAccess
validateResource(disk, inputPath, expectedType) ==
  LET pathCheck == validatePath(inputPath)
      absolutePath == pathCheck.absolutePath
      Invalid(error) == [valid |-> FALSE, absolutePath |-> <<>>,
                         error |-> error]
  IN  IF ~pathCheck.valid THEN pathCheck
      ELSE IF blockEugentDirectory(absolutePath)
           THEN Invalid(".eugent configuration directory")
      ELSE IF ~existsSync(disk, absolutePath) THEN Invalid("not found")
      ELSE IF At(disk, absolutePath).kind # expectedType
           THEN Invalid(IF expectedType = "file" THEN "not a file"
                        ELSE "not a directory")
      ELSE IF ~checkGitignoreAccess(disk, absolutePath, FALSE)
           THEN Invalid("gitignored path")
      ELSE [valid |-> TRUE, absolutePath |-> absolutePath, error |-> ""]

\* what a tool returns (an error text or the name of what it did) and the
\* disk it leaves
ToolOutcome(content, disk) == [content |-> content, disk |-> disk]

writeFileSync(disk, absolutePath, content) ==
  [p \in DOMAIN disk \cup {absolutePath} |->
     IF p = absolutePath
     THEN [At(disk, p) EXCEPT !.kind = "file", !.content = content]
     ELSE disk[p]]

(***************************************************************************)
(* edit_file (tools/file/edit_file.ts).                                    *)
(***************************************************************************)
Undefined == <<"undefined">>

TruthyText(text) == text # Undefined /\ text # <<>>

\* String.prototype.includes
includes(text, part) ==
  \E i \in 1..(Len(text) - Len(part) + 1) :
    SubSeq(text, i, i + Len(part) - 1) = part

\* first position at or after i where part occurs in text, 0 if none
RECURSIVE indexOf(_, _, _)
indexOf(text, part, i) ==
  IF i + Len(part) - 1 > Len(text) THEN 0
  ELSE IF SubSeq(text, i, i + Len(part) - 1) = part THEN i
  ELSE indexOf(text, part, i + 1)

\* text.split(part).length
RECURSIVE splitLength(_, _, _)
splitLength(text, part, i) ==
  IF part = <<>> THEN Len(text)
  ELSE LET at == indexOf(text, part, i) IN
       IF at = 0 THEN 1 ELSE 1 + splitLength(text, part, at + Len(part))

\* the replacement text of String.prototype.replace with its patterns
\* expanded: $$ is a dollar sign and $& the match; a pattern given as a
\* string captures nothing, so every other character stands for itself
\* (the texts here hold neither a grave accent nor an apostrophe, the two
\* characters that after a dollar sign stand for the text before and after
\* the match)
RECURSIVE GetSubstitution(_, _, _)
GetSubstitution(by, i, matched) ==
  IF i > Len(by) THEN <<>>
  ELSE IF by[i] = "$" /\ i < Len(by) /\ by[i + 1] \in {"$", "&"}
  THEN (IF by[i + 1] = "$" THEN <<"$">> ELSE matched)
       \o GetSubstitution(by, i + 2, matched)
  ELSE <<by[i]>> \o GetSubstitution(by, i + 1, matched)

\* text.replace(part, by) with a string `part`: the first occurrence only
replace(text, part, by) ==
  LET at == indexOf(text, part, 1)
      before == SubSeq(text, 1, at - 1)
      after == SubSeq(text, at + Len(part), Len(text)) IN
  IF at = 0 THEN text
  ELSE before \o GetSubstitution(by, 1, part) \o after

EditArgs(file_path, replace_full, full_content, old_content, new_content) ==
  [file_path |-> file_path, replace_full |-> replace_full,
   full_content |-> full_content, old_content |-> old_content,
   new_content |-> new_content]

\* a ToolContext; [defined |-> FALSE, ...] when the caller passes none
Context(allToolCalls) == [defined |-> TRUE, allToolCalls |-> allToolCalls]

\* mutant: the edit is not tied to an earlier read
fileWasReadAlways(context, absolutePath) == TRUE

\* executeEditFile lines 80-87
fileWasRead(context, absolutePath) ==
  \E i \in DOMAIN context.allToolCalls :
    LET call == context.allToolCalls[i] IN
    /\ call.name = "read_file"
    /\ call.args.read_for_write
    /\ resolve(Cwd, call.args.file_path) = absolutePath

\* returns "full_replace" or "search_replace" when it wrote the file
executeEditFile(args, context, disk) ==
  LET validation == validateResource(disk, args.file_path, "file")
      absolutePath == validation.absolutePath
      currentContent == At(disk, absolutePath).content
      Error(why) == ToolOutcome(why, disk)
  IN
  IF ~validation.valid THEN Error(validation.error)
  ELSE IF ~context.defined \/ context.allToolCalls = <<>>
       THEN Error("No tool calls found in conversation")
  ELSE IF ~fileWasRead(context, absolutePath)
       THEN Error("has not been read with read_for_write=true")
  ELSE IF args.replace_full
       THEN IF args.full_content = Undefined
            THEN Error("replace_full=true requires full_content")
            ELSE IF TruthyText(args.old_content)
                    \/ TruthyText(args.new_content)
                 THEN Error("old_content and new_content must be empty")
            ELSE ToolOutcome("full_replace",
                   writeFileSync(disk, absolutePath, args.full_content))
  ELSE IF args.old_content = Undefined \/ args.new_content = Undefined
       THEN Error("requires both old_content and new_content")
  ELSE IF TruthyText(args.full_content)
       THEN Error("full_content should only be used with replace_full")
  ELSE IF ~includes(currentContent, args.old_content)
       THEN Error("Search string not found in file")
  ELSE IF splitLength(currentContent, args.old_content, 1) - 1 > 1
       THEN Error("Ambiguous replacement")
  ELSE ToolOutcome("search_replace",
         writeFileSync(disk, absolutePath,
           replace(currentContent, args.old_content, args.new_content)))

(***************************************************************************)
(* The other file and search tools up to the point where each one starts   *)
(* its work ("ok").  Files are far below the 256KB limit.                  *)
(***************************************************************************)
executeWriteFile(file_path, content, disk) ==
  LET pathCheck == validatePath(file_path)
      absolutePath == pathCheck.absolutePath
      parents == {SubSeq(absolutePath, 1, n) : n \in 1..(Len(absolutePath) - 1)}
      \* fs.mkdirSync(parentDir, {recursive: true})
      made == [p \in DOMAIN disk \cup parents |->
                 IF existsSync(disk, p) THEN disk[p] ELSE Dir]
  IN  IF ~pathCheck.valid THEN ToolOutcome(pathCheck.error, disk)
      ELSE IF existsSync(disk, absolutePath)
           THEN ToolOutcome("File already exists", disk)
      ELSE IF blockEugentDirectory(absolutePath)
           THEN ToolOutcome(".eugent configuration directory", disk)
      ELSE IF ~checkGitignoreAccess(disk, absolutePath, FALSE)
           THEN ToolOutcome("gitignored path", disk)
      ELSE ToolOutcome("ok", writeFileSync(made, absolutePath, content))

FileTools ==
  {"read_file", "write_file", "edit_file", "delete_file", "list_files",
   "find_files", "grep"}

\* tools/registry.ts: the executor behind each name, called with a path.
\* executeReadFile and executeDeleteFile start with validateFilePath;
\* executeListFiles, executeFind and executeGrep with validateDirectoryPath
\* and blockEugentDirectory.
executeFileTool(toolName, p, disk) ==
  LET file == validateResource(disk, p, "file")
      directory == validateResource(disk, p, "directory")
  IN
  CASE toolName = "read_file" ->
         ToolOutcome(IF file.valid THEN "ok" ELSE file.error, disk)
    [] toolName = "delete_file" ->
         IF ~file.valid THEN ToolOutcome(file.error, disk)
         ELSE ToolOutcome("ok",
                [q \in DOMAIN disk \ {file.absolutePath} |-> disk[q]])
    [] toolName = "write_file" -> executeWriteFile(p, <<"y">>, disk)
    [] toolName = "edit_file" ->
         executeEditFile(
           EditArgs(p, TRUE, <<"y">>, Undefined, Undefined),
           Context(<<[name |-> "read_file", args |-> ToolArgs(p, TRUE)]>>),
           disk)
    [] OTHER ->
         IF ~directory.valid THEN ToolOutcome(directory.error, disk)
         ELSE IF blockEugentDirectory(directory.absolutePath)
              THEN ToolOutcome(".eugent configuration directory", disk)
         ELSE ToolOutcome("ok", disk)

(***************************************************************************)
(* The results of validateToolName and parseToolArguments with their       *)
(* synthetic tool messages; texts are sequences of characters.             *)
(***************************************************************************)
ArgTexts ==
  {ARGS_OK, ARGS_EMPTY, ARGS_BROKEN, ARGS_NULL, ARGS_NUMBER, "undefined", "",
   "{\"file_path\""}

\* the characters of a raw arguments text
RawChars(raw) ==
  CASE raw = ARGS_OK ->
         <<"{", "\"", "f", "i", "l", "e", "_", "p", "a", "t", "h", "\"", ":",
           "\"", "a", ".", "t", "x", "t", "\"", "}">>
    [] raw = ARGS_EMPTY -> <<"{", "}">>
    [] raw = ARGS_BROKEN -> <<"{">>
    [] raw = ARGS_NULL -> <<"n", "u", "l", "l">>
    [] raw = ARGS_NUMBER -> <<"5">>
    [] raw = "undefined" -> <<"u", "n", "d", "e", "f", "i", "n", "e", "d">>
    [] raw = "{\"file_path\"" ->
         <<"{", "\"", "f", "i", "l", "e", "_", "p", "a", "t", "h", "\"">>
    [] OTHER -> <<>>

\* JSON.stringify of a string: quotes and backslashes are escaped
RECURSIVE Escaped(_)
Escaped(cs) ==
  IF cs = <<>> THEN <<>>
  ELSE (IF Head(cs) \in {"\"", "\\"} THEN <<"\\", Head(cs)>>
        ELSE <<Head(cs)>>) \o Escaped(Tail(cs))

\* validateToolName lines 20-31 and parseToolArguments lines 48-59: the
\* synthetic tool message; its content is JSON.stringify({error: text})
ErrorMessage(name, text, toolCallId) ==
  [role |-> "tool", name |-> name,
   content |-> <<"{\"error\":\"">> \o text \o <<"\"}">>,
   toolCallId |-> toolCallId]

NoMessage == [role |-> "", name |-> <<>>, content |-> <<>>, toolCallId |-> 0]

validateToolNameResult(name, toolCallId) ==
  IF ~ToolNameValid(name)
  THEN [valid |-> FALSE,
        errorMessage |->
          ErrorMessage(name,
            <<"Invalid tool name format: ", "\\", "\"">> \o Escaped(name)
              \o <<"\\", "\"", ". Tool names must only contain ...">>,
            toolCallId)]
  ELSE [valid |-> TRUE, errorMessage |-> NoMessage]

parseToolArgumentsResult(name, raw, toolCallId) ==
  IF parseToolArguments(raw)
  THEN [valid |-> TRUE, errorMessage |-> NoMessage]
  ELSE [valid |-> FALSE,
        errorMessage |->
          ErrorMessage(name,
            <<"Invalid JSON in tool arguments: ", "parseError.message",
              ". Raw arguments: ">> \o Escaped(RawChars(raw)),
            toolCallId)]

(***************************************************************************)
(* Processes (tools/execution/execute_command.ts).  The processes of a     *)
(* command are numbered 1..n, 1 is the spawned shell (child.pid); par[i]   *)
(* is the parent of process i and par[1] = 0.  A tree without a process    *)
(* stands for a failed spawn.                                              *)
(***************************************************************************)
MaxProcs == 3

ProcessTrees ==
  {par \in UNION {[1..n -> 0..n] : n \in 0..MaxProcs} :
     \E depth \in [DOMAIN par -> 0..Len(par)] :
       \A i \in DOMAIN par :
         IF i = 1 THEN par[i] = 0 /\ depth[i] = 0
         ELSE par[i] # 0 /\ depth[i] = depth[par[i]] + 1}

\* the lines of `pgrep -P pid`: the live children of a live process, by
\* ascending pid
RECURSIVE pgrep(_, _, _, _)
pgrep(par, alive, pid, from) ==
  IF from > Len(par) \/ pid \notin alive THEN <<>>
  ELSE (IF par[from] = pid /\ from \in alive THEN <<from>> ELSE <<>>)
       \o pgrep(par, alive, pid, from + 1)

\* the while loop of findAllDescendants; `lost` are the processes whose
\* lookup fails (the catch swallows it)
RECURSIVE findAllDescendants(_, _, _, _, _)
findAllDescendants(par, alive, lost, toProcess, descendants) ==
  IF toProcess = <<>> THEN descendants
  ELSE LET currentPid == toProcess[Len(toProcess)]
           rest == SubSeq(toProcess, 1, Len(toProcess) - 1)
       IN  IF \E k \in DOMAIN descendants : descendants[k] = currentPid
           THEN findAllDescendants(par, alive, lost, rest, descendants)
           ELSE findAllDescendants(par, alive, lost,
                  rest \o (IF currentPid \in lost THEN <<>>
                           ELSE pgrep(par, alive, currentPid, 1)),
                  Append(descendants, currentPid))

\* mutant: the pids are signalled in the order of their discovery
reverseNot(seq) == seq

\* Array.prototype.reverse
reverse(seq) == [k \in 1..Len(seq) |-> seq[Len(seq) + 1 - k]]

\* killProcessTree: the pids that get SIGKILL, in the order of the calls of
\* process.kill
killProcessTree(par, alive, lost, pid) ==
  reverse(findAllDescendants(par, alive, lost, <<pid>>, <<>>))

(***************************************************************************)
(* The functions and tools called on their own, as the unit tests call     *)
(* them: the input is drawn at the start and each function is applied to   *)
(* it; the healed transcript is then healed again, or validated.           *)
(***************************************************************************)
Disk0 ==
  (<<"home">> :> Dir) @@
  (Cwd :> Dir) @@
  (Cwd \o <<"a.txt">> :> File(<<"x", "y">>)) @@
  (Cwd \o <<"b.txt">> :> File(<<"x", "x">>)) @@
  (Cwd \o <<".eugent">> :> Dir) @@
  (Cwd \o <<".eugent", "a.txt">> :> File(<<"x">>)) @@
  (<<"home", "proj2">> :> Dir) @@
  (<<"home", "proj2", "a.txt">> :> File(<<"x">>))

\* transcripts of tool messages (and a user message) as executeToolCall and
\* the context builder read them
Histories ==
  LET ReadPaths == {Path(FALSE, <<"a.txt">>), Path(FALSE, <<".", "a.txt">>),
                    Path(FALSE, <<"b.txt">>)}
      ok == "{\"content\":\"xy\"}"
      HistoryMessages ==
        {ToolResult("read_file", c, ToolArgs(p, TRUE)) :
           p \in ReadPaths, c \in ResultTexts}
        \cup {ToolResult("read_file", ok, ToolArgs(p, FALSE)) :
                p \in ReadPaths}
        \cup {ToolResult("write_file", ok,
                         ToolArgs(Path(FALSE, <<"a.txt">>), TRUE)),
              ToolResult("read_file", ok, NoToolArgs),
              [role |-> "user", name |-> "", content |-> "user text",
               toolArgs |-> NoToolArgs]}
  IN  UNION {[1..n -> HistoryMessages] : n \in 0..MaxHistory}

EditCalls ==
  {EditArgs(p, TRUE, <<"y">>, Undefined, Undefined) :
     p \in {Path(FALSE, <<"a.txt">>), Path(FALSE, <<"b.txt">>)}}
  \cup {EditArgs(p, FALSE, Undefined, <<"x">>, <<"y">>) :
          p \in {Path(FALSE, <<"a.txt">>), Path(FALSE, <<"b.txt">>)}}

InputPaths ==
  LET PathSegs == {"..", ".eugent", "a.txt", "proj2", "proj", "home"} IN
  {Path(abs, segs) :
     abs \in BOOLEAN, segs \in UNION {[1..n -> PathSegs] : n \in 0..MaxSegs}}

\* transcripts as validateMessages and healOrphanedToolCalls read them
Transcripts ==
  LET TranscriptCalls ==
        {ToolCall(id, "read_file", ARGS_OK) : id \in 1..MaxIds}
        \cup {ToolCall(1, "", ARGS_OK)}
      TranscriptMessages ==
        {UserMsg, AssistantText("final")}
        \cup {AssistantCalls(calls) :
                calls \in UNION {[1..n -> TranscriptCalls] : n \in 1..MaxCalls}}
        \cup {ToolMsg("read_file", "result ok", id) : id \in 1..MaxIds}
  IN  UNION {[1..n -> TranscriptMessages] : n \in 0..MaxLen}

\* tool names as sequences of characters
Names ==
  UNION {[1..n -> {"a", "7", "_", "-", ".", "("}] : n \in 0..MaxNameLen}

(***************************************************************************)
(* Ignore patterns and filename globs.  Both matchers build the source of  *)
(* a regular expression from the pattern by global replacements and test   *)
(* the text with it.  A source is a sequence of characters; the matcher    *)
(* reads the atoms the two conversions can produce: the anchors, an        *)
(* escaped character, the dot that stands for any character, a literal,    *)
(* and an atom followed by the star.                                       *)
(***************************************************************************)
RECURSIVE replaceAll(_, _, _)
replaceAll(text, c, by) ==
  IF text = <<>> THEN <<>>
  ELSE (IF Head(text) = c THEN by ELSE <<Head(text)>>)
       \o replaceAll(Tail(text), c, by)

RECURSIVE RegExpMatch(_, _, _, _)
RegExpMatch(source, i, text, j) ==
  IF i > Len(source) THEN TRUE
  ELSE IF source[i] = "^" THEN j = 1 /\ RegExpMatch(source, i + 1, text, j)
  ELSE IF source[i] = "$"
  THEN j = Len(text) + 1 /\ RegExpMatch(source, i + 1, text, j)
  ELSE
    LET escaped == source[i] = "\\" /\ i < Len(source)
        width == IF escaped THEN 2 ELSE 1
        AtomMatches(c) ==
          IF escaped THEN c = source[i + 1]
          ELSE IF source[i] = "." THEN TRUE
          ELSE c = source[i]
        starred == i + width <= Len(source) /\ source[i + width] = "*"
        here == j <= Len(text) /\ AtomMatches(text[j])
    IN  IF starred
        THEN \/ RegExpMatch(source, i + width + 1, text, j)
             \/ here /\ RegExpMatch(source, i, text, j + 1)
        ELSE here /\ RegExpMatch(source, i + width, text, j + 1)

\* new RegExp(source).test(text), for the anchored sources built below
RegExpTest(source, text) == RegExpMatch(source, 1, text, 1)

\* path.basename of a path that does not end in a separator
basename(filePath) ==
  LET slashes == {i \in DOMAIN filePath : filePath[i] = "/"}
      last == IF slashes = {} THEN 0
              ELSE CHOOSE i \in slashes : \A k \in slashes : k <= i
  IN  SubSeq(filePath, last + 1, Len(filePath))

matchesSimplePattern(filename, pattern) ==
  LET regexPattern ==
        replaceAll(replaceAll(replaceAll(pattern, ".", <<"\\", ".">>),
                              "*", <<".", "*">>),
                   "?", <<".">>)
  IN  RegExpTest(<<"^">> \o regexPattern \o <<"$">>, filename)

RECURSIVE matchesGitignorePattern(_, _)
matchesGitignorePattern(filePath, patterns) ==
  IF patterns = <<>> THEN FALSE
  ELSE
    LET pattern == Head(patterns)
        fileName == basename(filePath)
        regex == <<"^">>
                 \o replaceAll(replaceAll(pattern, "*", <<".", "*">>),
                               "?", <<".">>)
                 \o <<"$">>
        matched ==
          IF pattern = <<>> \/ Head(pattern) = "#" THEN FALSE
          ELSE IF Last(pattern) = "/"
          THEN includes(filePath, SubSeq(pattern, 1, Len(pattern) - 1))
          ELSE IF includes(pattern, <<"*">>)
          THEN RegExpTest(regex, fileName) \/ RegExpTest(regex, filePath)
          ELSE fileName = pattern \/ includes(filePath, pattern)
    IN  matched \/ matchesGitignorePattern(filePath, Tail(patterns))

\* file contents and search and replacement texts
MaxText == 2

Texts(n) == UNION {[1..k -> {"x", "$", "&"}] : k \in 0..n}

\* relative paths and ignore patterns as sequences of characters
RelativePaths ==
  {p \in UNION {[1..k -> {"a", ".", "/"}] : k \in 1..(MaxText + 1)} :
     /\ p[1] # "/"
     /\ p[Len(p)] # "/"
     /\ ~\E i \in 1..(Len(p) - 1) : p[i] = "/" /\ p[i + 1] = "/"}

IgnorePatterns ==
  UNION {[1..k -> {"a", ".", "*", "?", "/"}] : k \in 0..(MaxText + 1)}

UnitInit ==
  /\ AtRest
  /\ allowedTools = {}
  /\ input \in [op : {"history"}, history : Histories, disk : {Disk0}]
          \cup [op : {"path"}, path : InputPaths, disk : {Disk0}]
          \cup [op : {"transcript"}, messages : Transcripts]
          \cup [op : {"tool call"}, name : Names, arguments : ArgTexts,
                id : 1..MaxIds]
          \cup [op : {"edit"}, content : Texts(MaxText + 1),
                old_content : Texts(MaxText), new_content : Texts(MaxText)]
          \cup [op : {"ignore"}, filePath : RelativePaths,
                pattern : IgnorePatterns]
          \cup {[op |-> "process tree", par |-> par, lost |-> lost] :
                  par \in ProcessTrees \ {<<>>},
                  lost \in SUBSET (1..MaxProcs)}
  /\ output = Nothing
  /\ exec = NoExec

\* the function returns; nothing of the chat is touched
Returns(result) ==
  /\ output' = result
  /\ UNCHANGED <<messages, isProcessing, abortController, aborted,
                 pendingPermission, openRequests, pc, conversationHistory,
                 loopCount, maxLoops, toolCalls, tcIndex, permissionDenied,
                 allowedTools, trace, turn, nextId, budget, input, exec,
                 toolContext, contexts>>

\* executeEditFile(args, context) called with a context of the caller's
\* making, or with none
ExecuteEditFile ==
  /\ input.op = "history"
  /\ output = Nothing
  /\ \E args \in EditCalls :
       \E context \in {[defined |-> FALSE, allToolCalls |-> <<>>],
                       Context(CallsOfMessages(input.history))} :
         LET outcome == executeEditFile(args, context, input.disk) IN
         Returns([op |-> "executeEditFile", args |-> args,
                  context |-> context, content |-> outcome.content,
                  disk |-> outcome.disk])

\* executeEditFile in search/replace mode on a file that was read for
\* writing
SearchAndReplace ==
  /\ input.op = "edit"
  /\ output = Nothing
  /\ LET file_path == Path(FALSE, <<"a.txt">>)
         disk == writeFileSync(Disk0, Cwd \o <<"a.txt">>, input.content)
         outcome ==
           executeEditFile(
             EditArgs(file_path, FALSE, Undefined, input.old_content,
                      input.new_content),
             Context(<<[name |-> "read_file",
                        args |-> ToolArgs(file_path, TRUE)]>>),
             disk)
     IN  Returns([op |-> "search and replace", before |-> disk,
                  content |-> outcome.content, disk |-> outcome.disk])

\* matchesGitignorePattern(relativePath, patterns) with the one pattern of
\* a .gitignore file
MatchesGitignorePattern ==
  /\ input.op = "ignore"
  /\ output = Nothing
  /\ Returns([op |-> "matchesGitignorePattern",
              ignored |-> matchesGitignorePattern(input.filePath,
                                                  <<input.pattern>>)])

\* executeToolCall lines 86-100: the context is rebuilt from the transcript
DispatchEditFile ==
  /\ input.op = "history"
  /\ output = Nothing
  /\ \E args \in EditCalls :
       LET context ==
             Context(extractToolCallHistory(input.history).allToolCalls)
           outcome == executeEditFile(args, context, input.disk)
       IN  Returns([op |-> "executeToolCall", args |-> args,
                    context |-> context, content |-> outcome.content,
                    disk |-> outcome.disk])

ExtractToolCallHistory ==
  /\ input.op = "history"
  /\ output = Nothing
  /\ Returns([op |-> "extractToolCallHistory",
              allToolCalls |->
                extractToolCallHistory(input.history).allToolCalls,
              kept |-> {i \in DOMAIN input.history :
                          Succeeded(input.history[i])}])

\* runContextBuilder lines 199-210
BuildToolHistory ==
  /\ input.op = "history"
  /\ output = Nothing
  /\ Returns([op |-> "runContextBuilder",
              allToolCalls |->
                CallsOfMessages(SelectSeq(input.history, BuilderSucceeded)),
              kept |-> {i \in DOMAIN input.history :
                          BuilderSucceeded(input.history[i])}])

\* the tools the context builder offers to the model (lines 103-108 and
\* 126-131) and the executors of the registry (registry.ts lines 18-31)
EXPLORATORY_TOOL_NAMES == {"read_file", "list_files", "find_files", "grep"}

toolExecutors ==
  {"read_file", "list_files", "execute_command", "find_files", "grep",
   "write_file", "delete_file", "edit_file", "manage_todos", "web_fetch",
   "github_search", "npm_search"}

exploratoryTools ==
  (toolExecutors \cap EXPLORATORY_TOOL_NAMES) \cup {"context_write"}

\* runContextBuilder lines 195-228: one tool call of the model's response
\* is dispatched, by its name alone; executeTool runs the executor the
\* registry holds for the name
BuilderDispatches ==
  /\ input.op = "history"
  /\ output = Nothing
  /\ \E toolName \in toolExecutors \cup {"context_write", "list_files()"} :
       Returns([op |-> "builder dispatch", toolName |-> toolName,
                allToolCalls |->
                  CallsOfMessages(SelectSeq(input.history, BuilderSucceeded)),
                executor |->
                  IF toolName = "context_write" THEN "context_write"
                  ELSE IF toolName \in toolExecutors THEN toolName
                  ELSE "none"])

\* executeToolCall lines 120-133: setTodos is called when the result of
\* manage_todos counts as successful (the arguments carry todos)
HandleManageTodos ==
  /\ input.op = "history"
  /\ output = Nothing
  /\ \E toolResult \in ResultTexts :
       Returns([op |-> "manage_todos", toolResult |-> toolResult,
                succeeded |-> ResultSucceeded(toolResult)])

\* runContextBuilder lines 230-238: the loop stops when the result of
\* context_write counts as successful
HandleContextWrite ==
  /\ input.op = "history"
  /\ output = Nothing
  /\ \E toolResult \in ResultTexts :
       Returns([op |-> "context_write", toolResult |-> toolResult,
                succeeded |-> ResultSucceeded(toolResult)])

ValidatePath ==
  /\ input.op = "path"
  /\ output = Nothing
  /\ LET pathCheck == validatePath(input.path) IN
     Returns([op |-> "validatePath", valid |-> pathCheck.valid,
              absolutePath |-> pathCheck.absolutePath,
              error |-> pathCheck.error])

CallFileTool ==
  /\ input.op = "path"
  /\ output = Nothing
  /\ \E toolName \in FileTools :
       LET outcome == executeFileTool(toolName, input.path, input.disk) IN
       Returns([op |-> toolName, content |-> outcome.content,
                disk |-> outcome.disk])

ValidateMessages ==
  /\ input.op = "transcript"
  /\ output = Nothing
  /\ LET result == validateMessages(input.messages) IN
     Returns([op |-> "validateMessages", valid |-> result.valid,
              errors |-> result.errors, warnings |-> result.warnings])

HealOrphanedToolCalls ==
  /\ input.op = "transcript"
  /\ output = Nothing
  /\ Returns([op |-> "healOrphanedToolCalls",
              messages |-> healOrphanedToolCalls(input.messages)])

\* the healed transcript is healed again
HealAgain ==
  /\ output.op = "healOrphanedToolCalls"
  /\ Returns([op |-> "healed twice", once |-> output.messages,
              messages |-> healOrphanedToolCalls(output.messages)])

\* the healed transcript is validated
ValidateHealed ==
  /\ output.op = "healOrphanedToolCalls"
  /\ LET result == validateMessages(output.messages) IN
     Returns([op |-> "validated healed", valid |-> result.valid,
              errors |-> result.errors, warnings |-> result.warnings])

ValidateToolName ==
  /\ input.op = "tool call"
  /\ output = Nothing
  /\ LET result == validateToolNameResult(input.name, input.id) IN
     Returns([op |-> "validateToolName", valid |-> result.valid,
              errorMessage |-> result.errorMessage])

ParseToolArguments ==
  /\ input.op = "tool call"
  /\ output = Nothing
  /\ LET result ==
           parseToolArgumentsResult(input.name, input.arguments, input.id) IN
     Returns([op |-> "parseToolArguments", valid |-> result.valid,
              errorMessage |-> result.errorMessage])

\* killProcessTree(child.pid) while every process of the command lives
KillProcessTree ==
  /\ input.op = "process tree"
  /\ output = Nothing
  /\ Returns([op |-> "killProcessTree",
              signalled |-> killProcessTree(input.par, DOMAIN input.par,
                                            input.lost, 1)])

UnitNext ==
  \/ ExecuteEditFile
  \/ DispatchEditFile
  \/ ExtractToolCallHistory
  \/ BuildToolHistory
  \/ HandleManageTodos
  \/ HandleContextWrite
  \/ ValidatePath
  \/ CallFileTool
  \/ ValidateMessages
  \/ HealOrphanedToolCalls
  \/ HealAgain
  \/ ValidateHealed
  \/ ValidateToolName
  \/ ParseToolArguments
  \/ KillProcessTree
  \/ SearchAndReplace
  \/ MatchesGitignorePattern
  \/ BuilderDispatches

UnitSpec == UnitInit /\ [][UnitNext]_vars

\* C11: edit_file writes only if its context holds a read_file call with
\* read_for_write=true for the same absolute path, which in the main loop
\* means an earlier read_file tool message without an error key for that
\* file; without such a read it returns an error and the disk is unchanged.
C11_EditOnlyAfterRead ==
  LET edited == resolve(Cwd, output.args.file_path)
      EditFailed == output.content \notin {"full_replace", "search_replace"}
      ReadForWriteIn(allToolCalls) ==
        \E i \in DOMAIN allToolCalls :
          /\ allToolCalls[i].name = "read_file"
          /\ allToolCalls[i].args.read_for_write
          /\ resolve(Cwd, allToolCalls[i].args.file_path) = edited
      ReadMessageIn(history) ==
        \E i \in DOMAIN history :
          /\ history[i].role = "tool"
          /\ history[i].name = "read_file"
          /\ history[i].toolArgs.defined
          /\ history[i].toolArgs.read_for_write
          /\ resolve(Cwd, history[i].toolArgs.file_path) = edited
          /\ ~ResultParseThrows(history[i].content)
          /\ ResultError(history[i].content) = "undefined"
  IN
  /\ output.op = "executeEditFile" =>
       LET read == /\ output.context.defined
                   /\ ReadForWriteIn(output.context.allToolCalls) IN
       /\ ~EditFailed => read
       /\ ~read => EditFailed /\ output.disk = input.disk
  /\ output.op = "executeToolCall" =>
       /\ ~EditFailed => ReadMessageIn(input.history)
       /\ ~ReadMessageIn(input.history) =>
            EditFailed /\ output.disk = input.disk

C11_Witness ==
  /\ output.op = "executeToolCall"
  /\ output.content \in {"full_replace", "search_replace"}
  /\ output.disk # input.disk
  /\ Len(input.history) = MaxHistory

\* C12: validatePath returns valid=true only for a path that resolves to the
\* working directory or into its tree; every path resolving outside it is
\* rejected with the 'outside the current directory' error.
C12_OnlyInsideWorkingDirectory ==
  output.op = "validatePath" =>
    LET absolutePath == resolve(Cwd, input.path)
        InsideCwd == /\ Len(absolutePath) >= Len(Cwd)
                     /\ SubSeq(absolutePath, 1, Len(Cwd)) = Cwd
    IN  /\ output.valid => InsideCwd
        /\ ~InsideCwd =>
             ~output.valid /\ output.error = "outside the current directory"

\* C13: every file and search tool rejects a path that is the .eugent
\* directory or lies inside it with the '.eugent configuration directory'
\* error, whether or not the path exists on disk.
C13_EugentAlwaysRejected ==
  LET absolutePath == resolve(Cwd, input.path)
      InsideEugent == /\ Len(absolutePath) > Len(Cwd)
                      /\ SubSeq(absolutePath, 1, Len(Cwd)) = Cwd
                      /\ absolutePath[Len(Cwd) + 1] = ".eugent"
  IN  (output.op \in FileTools /\ InsideEugent) =>
        /\ output.content = ".eugent configuration directory"
        /\ output.disk = input.disk

\* C14: healing is idempotent: healing a healed transcript changes nothing,
\* whatever the transcript (an id announced by several assistant messages,
\* assistant messages answered in part).
C14_HealIdempotent ==
  output.op = "healed twice" => output.messages = output.once

C14_Witness ==
  LET msgs == input.messages IN
  /\ output.op = "healed twice"
  /\ output.once # msgs
  /\ \E c, d \in CallsOf(msgs) :
       /\ d[1] # c[1]
       /\ msgs[d[1]].toolCalls[d[2]].id = msgs[c[1]].toolCalls[c[2]].id
  /\ \E c \in Unanswered(msgs) :
       \E d \in CallsOf(msgs) \ Unanswered(msgs) : d[1] = c[1]

\* C15: validating a healed transcript never reports the 'tool call(s) have
\* no corresponding tool response' error.
C15_HealedHasNoOrphanError ==
  output.op = "validated healed" =>
    <<"no tool response", 0>> \notin output.errors

C17_DuplicateIdIsError ==
  LET msgs == input.messages
      AnnouncingTwice ==
        {i \in DOMAIN msgs :
           \E k, l \in DOMAIN msgs[i].toolCalls :
             k # l /\ msgs[i].toolCalls[k].id = msgs[i].toolCalls[l].id}
  IN  (output.op = "validateMessages" /\ AnnouncingTwice # {})
        => output.errors # {}

\* C18: every consumer that classifies a tool result treats a result with an
\* error key as a failure, whatever the value of the key (0, "", null).
C18_ErrorKeyMeansFailure ==
  LET HasErrorKey(text) ==
        text \in {"{\"error\":\"File not found\"}", "{\"error\":0}",
                  "{\"error\":\"\"}", "{\"error\":null}"}
  IN
  /\ output.op \in {"extractToolCallHistory", "runContextBuilder"} =>
       \A i \in output.kept : ~HasErrorKey(input.history[i].content)
  /\ output.op \in {"manage_todos", "context_write"} =>
       (HasErrorKey(output.toolResult) => ~output.succeeded)

\* C19: parseToolArguments returns valid=true only when the raw text decodes
\* to an object; a text that does not decode, or decodes to something that
\* is not an object, yields valid=false and a synthetic tool message with
\* the call's id whose content contains the raw text verbatim.
C19_OnlyObjectsAreArguments ==
  output.op = "parseToolArguments" =>
    /\ output.valid => JsonParse(input.arguments) = "object"
    /\ JsonParse(input.arguments) # "object" =>
         /\ ~output.valid
         /\ output.errorMessage.role = "tool"
         /\ output.errorMessage.toolCallId = input.id
         /\ includes(output.errorMessage.content, RawChars(input.arguments))

\* C20: validateToolName accepts a name exactly when it is made of one or
\* more non-empty segments of [A-Za-z0-9_-] joined by single dots; for any
\* other name it returns valid=false with a tool message carrying the
\* call's id.
C20_NameAcceptedIffSegmented ==
  LET cs == input.name
      Segmented ==
        /\ cs # <<>>
        /\ \A i \in DOMAIN cs : cs[i] \in WordChars \cup {"."}
        /\ cs[1] # "."
        /\ cs[Len(cs)] # "."
        /\ \A i \in 1..(Len(cs) - 1) : ~(cs[i] = "." /\ cs[i + 1] = ".")
  IN  output.op = "validateToolName" =>
        /\ output.valid <=> Segmented
        /\ ~Segmented =>
             /\ output.errorMessage.role = "tool"
             /\ output.errorMessage.toolCallId = input.id

C20_Witness ==
  /\ output.op = "validateToolName"
  /\ ~output.valid
  /\ input.name \in {<<"a", ".", ".">>, <<".", "a">>, <<"a", ".">>}
  /\ output.errorMessage.toolCallId = input.id

\* C21: for every proposed tool call executeToolCall completes with a
\* result: once the preprocessing of a call has started, the call is waiting
\* for its permission answer or its tool, or a tool message or validation
\* error message with its id was appended; no exception reaches the loop.
C21_ExecuteToolCallNeverThrows ==
  \A i \in Events("preprocess") :
    \/ \E j \in Events("toolmsg") : j > i /\ trace[j].id = trace[i].id
    \/ /\ pc \in {"awaitPermission", "executing"}
       /\ tcIndex \in DOMAIN toolCalls
       /\ toolCalls[tcIndex].id = trace[i].id

\* C27: killProcessTree signals every discovered process before it signals
\* that process's parent, for every shape of the tree, every numbering of
\* its processes and every set of failing lookups.
C27_ChildrenBeforeParents ==
  output.op = "killProcessTree" =>
    /\ \A i, j \in DOMAIN output.signalled :
         input.par[output.signalled[i]] = output.signalled[j] => i < j
    /\ \A i, j \in DOMAIN output.signalled :
         output.signalled[i] = output.signalled[j] => i = j
    /\ output.signalled[Len(output.signalled)] = 1

C27_Witness ==
  /\ output.op = "killProcessTree"
  /\ Len(output.signalled) = MaxProcs
  /\ input.par[2] = 3
  /\ output.signalled # <<1, 2, 3>>

(***************************************************************************)
(* executeExecuteCommand.  One invocation: the body of the promise         *)
(* executor is one step, every handler it registers (abort listener,       *)
(* timers, data, close, error) is a step of its own, and the processes of  *)
(* the command exit when they like.  A text is its length and the number   *)
(* of white-space characters at its end.                                   *)
(***************************************************************************)
MaxChunks == 2

\* 1024 * 1024 * 10
MAX_BUFFER == 10485760

DEFAULT_TIMEOUT == 30000

NoText == [len |-> 0, pad |-> 0]

\* String.prototype.trim of a text that starts with a visible character
trim(text) == [len |-> text.len - text.pad, pad |-> 0]

\* the locals of the executor when it starts
Called ==
  [pc |-> "called", stdout |-> NoText, stderr |-> NoText, killed |-> FALSE,
   resolved |-> FALSE, timeoutHandle |-> FALSE, graceTimer |-> FALSE,
   listener |-> FALSE, signalAborted |-> input.signal = "aborted",
   spawned |-> FALSE, pid |-> 0, alive |-> {}, exitCode |-> -1,
   abortHandler |-> "idle", closed |-> FALSE, errored |-> FALSE,
   timedOut |-> FALSE, signalled |-> {}, chunks |-> 0, results |-> <<>>]

ExecInit ==
  /\ AtRest
  /\ allowedTools = {}
  /\ output = Nothing
  /\ input \in [op : {"execute_command"},
                par : {<<>>, <<0>>, <<0, 1>>},
                signal : {"none", "fresh", "aborted"},
                timeout : {0, DEFAULT_TIMEOUT},
                ownGroup : BOOLEAN, unkillable : BOOLEAN]
  /\ exec = Called

\* a step of the invocation; nothing of the chat is touched
Runs(e) ==
  /\ exec' = e
  /\ UNCHANGED <<messages, isProcessing, abortController, aborted,
                 pendingPermission, openRequests, pc, conversationHistory,
                 loopCount, maxLoops, toolCalls, tcIndex, permissionDenied,
                 allowedTools, trace, turn, nextId, budget, input, output,
                 toolContext, contexts>>

\* the JSON text of an aborted outcome, as a record with the keys of the
\* object
Aborted(error, stdout, stderr) ==
  [error |-> error, aborted |-> TRUE, command |-> "command",
   stdout |-> stdout, stderr |-> stderr]

\* mutant: the handlers do not look at `resolved`
resolveAgain(e, result) ==
  [e EXCEPT !.resolved = TRUE, !.results = Append(@, result)]

\* `if (resolved) return; resolved = true; resolve(...)`
resolveOnce(e, result) ==
  IF e.resolved THEN e
  ELSE [e EXCEPT !.resolved = TRUE, !.results = Append(@, result)]

\* SIGKILL reaches the processes `pids`
kill(e, pids) ==
  [e EXCEPT !.signalled = @ \cup pids,
            !.alive = IF input.unkillable THEN @ ELSE @ \ pids]

\* mutant: an aborted signal is not looked at before the spawn
preAbortedNever == FALSE

\* line 193: context?.signal?.aborted
preAborted == input.signal = "aborted"

\* lines 184-333, the executor: the short circuit, or spawn and the
\* registration of the listener, the timer and the handlers
ExecuteExecuteCommand ==
  /\ exec.pc = "called"
  /\ IF preAborted
     THEN Runs([exec EXCEPT
            !.pc = "returned", !.resolved = TRUE,
            !.results = <<Aborted("ABORTED: User pressed ESC", NoText,
                                  NoText)>>])
     ELSE LET pid == IF input.par = <<>> THEN 0 ELSE 1
              runsHandler == input.signal # "none" /\ exec.signalAborted
          IN  Runs([exec EXCEPT
                !.pc = "returned", !.spawned = TRUE, !.pid = pid,
                !.alive = DOMAIN input.par,
                !.listener = input.signal # "none" /\ ~exec.signalAborted,
                !.killed = runsHandler,
                !.abortHandler = IF runsHandler /\ pid # 0 THEN "killing"
                                 ELSE "idle",
                !.timeoutHandle = input.timeout > 0])

\* the signal fires; abortHandler runs up to `await killProcessTree`
SignalAborts ==
  /\ exec.pc = "returned"
  /\ input.signal = "fresh"
  /\ ~exec.signalAborted
  /\ Runs(IF exec.listener
          THEN [exec EXCEPT
                  !.signalAborted = TRUE, !.listener = FALSE,
                  !.killed = TRUE,
                  !.abortHandler = IF exec.pid # 0 THEN "killing" ELSE "idle"]
          ELSE [exec EXCEPT !.signalAborted = TRUE])

\* lines 217-234: killProcessTree has signalled the processes it found,
\* the grace timer is set
AbortHandlerKills ==
  /\ exec.abortHandler = "killing"
  /\ LET found == killProcessTree(input.par, exec.alive, {}, exec.pid) IN
     Runs([kill(exec, {found[k] : k \in DOMAIN found}) EXCEPT
             !.abortHandler = "done", !.graceTimer = TRUE])

\* mutant: the grace timer does not resolve
GraceTimerFiresIdle ==
  /\ exec.graceTimer
  /\ Runs([exec EXCEPT !.graceTimer = FALSE])

\* lines 220-233, after 2000 ms
GraceTimerFires ==
  /\ exec.graceTimer
  /\ Runs(IF exec.killed /\ ~exec.resolved
          THEN [resolveOnce(exec,
                   Aborted("ABORTED: Process tree killed",
                           trim(exec.stdout), trim(exec.stderr)))
                  EXCEPT !.graceTimer = FALSE]
          ELSE [exec EXCEPT !.graceTimer = FALSE])

\* lines 247-256: process.kill(-child.pid) reaches the group when the shell
\* leads one and throws otherwise; then child.kill reaches the shell
TimeoutFires ==
  /\ exec.timeoutHandle
  /\ LET e == [exec EXCEPT !.timeoutHandle = FALSE, !.killed = TRUE,
                           !.timedOut = TRUE]
     IN  Runs(IF exec.pid = 0 THEN e
              ELSE IF input.ownGroup THEN kill(e, DOMAIN input.par)
              ELSE kill(e, {exec.pid}))

\* lines 259-273, the 'data' handlers of stdout and stderr: a chunk of
\* output arrives, two characters or as many as the cap
OnData(stream) ==
  /\ exec.pc = "returned"
  /\ exec.pid # 0
  /\ ~exec.closed
  /\ exec.chunks < MaxChunks
  /\ \E n \in {2, MAX_BUFFER} :
       LET text == [len |-> exec[stream].len + n, pad |-> 1]
           e == [exec EXCEPT ![stream] = text, !.chunks = @ + 1]
       IN  Runs(IF text.len > MAX_BUFFER
                THEN kill([e EXCEPT !.killed = TRUE], {exec.pid})
                ELSE e)

\* a process of the command ends: by itself, the shell with an exit code,
\* or by a signal from outside, which leaves `code` null (-1 here)
ProcessExits ==
  /\ exec.pc = "returned"
  /\ \E p \in exec.alive :
       \E code \in IF p = exec.pid THEN {0, 1, -1} ELSE {-1} :
         Runs([exec EXCEPT
                 !.alive = @ \ {p},
                 !.exitCode = IF p = exec.pid THEN code ELSE @])

\* lines 275-306: 'close' comes when no process holds the pipes any more
OnClose ==
  /\ exec.pc = "returned"
  /\ exec.spawned
  /\ ~exec.closed
  /\ exec.alive = {}
  /\ exec.pid = 0 => exec.errored
  /\ LET e == [exec EXCEPT !.closed = TRUE, !.timeoutHandle = FALSE] IN
     Runs(resolveOnce(e, IF e.killed
                     THEN Aborted("ABORTED: User pressed ESC",
                                  trim(e.stdout), trim(e.stderr))
                     ELSE [command |-> "command", stdout |-> trim(e.stdout),
                           stderr |-> trim(e.stderr),
                           exitCode |-> IF e.exitCode = -1 THEN 0
                                        ELSE e.exitCode]))

\* lines 308-331: 'error' comes when the spawn failed
OnError ==
  /\ exec.pc = "returned"
  /\ exec.spawned
  /\ exec.pid = 0
  /\ ~exec.errored
  /\ LET e == [exec EXCEPT !.errored = TRUE, !.timeoutHandle = FALSE] IN
     Runs(resolveOnce(e, [error |-> "Failed to execute command",
                          command |-> "command", stdout |-> trim(e.stdout),
                          stderr |-> trim(e.stderr)]))

ExecNext ==
  \/ ExecuteExecuteCommand
  \/ SignalAborts
  \/ AbortHandlerKills
  \/ GraceTimerFires
  \/ TimeoutFires
  \/ \E stream \in {"stdout", "stderr"} : OnData(stream)
  \/ ProcessExits
  \/ OnClose
  \/ OnError

ExecSpec == ExecInit /\ [][ExecNext]_vars

\* timers fire, lookups end, and 'close' and 'error' are delivered once
\* they are due; nothing obliges a process to exit
FairExecSpec ==
  /\ ExecSpec
  /\ WF_vars(ExecuteExecuteCommand)
  /\ WF_vars(AbortHandlerKills)
  /\ WF_vars(GraceTimerFires)
  /\ WF_vars(TimeoutFires)
  /\ WF_vars(OnClose)
  /\ WF_vars(OnError)

\* C22: an invocation of executeExecuteCommand produces at most one result,
\* and the result has exactly the keys of one of the three outcomes, under
\* every interleaving of close, error, timeout, cancellation and output.
C22_OneResultOfThreeShapes ==
  /\ Len(exec.results) <= 1
  /\ \A k \in DOMAIN exec.results :
       \/ DOMAIN exec.results[k] = {"command", "stdout", "stderr", "exitCode"}
       \/ /\ DOMAIN exec.results[k]
               = {"error", "aborted", "command", "stdout", "stderr"}
          /\ exec.results[k].aborted = TRUE
       \/ DOMAIN exec.results[k] = {"error", "command", "stdout", "stderr"}

C22_Witness ==
  /\ Len(exec.results) = 1
  /\ exec.closed
  /\ exec.timedOut
  /\ exec.signalAborted
  /\ ~exec.graceTimer /\ exec.abortHandler = "done"
  /\ "error" \in DOMAIN exec.results[1]
  /\ exec.results[1].error = "ABORTED: Process tree killed"

\* C23: if the signal fires after the process was spawned and before the
\* invocation resolved, the invocation eventually resolves with the aborted
\* outcome, even when the process never emits close.
C23_CancelledResolvesAborted ==
  (/\ input.signal = "fresh"
   /\ exec.signalAborted
   /\ exec.pid # 0
   /\ ~exec.resolved)
  ~> (exec.results # <<>> /\ "aborted" \in DOMAIN exec.results[1])

C23_Witness ==
  /\ input.unkillable
  /\ exec.alive # {}
  /\ ~exec.closed
  /\ exec.results
       = <<Aborted("ABORTED: Process tree killed", trim(exec.stdout),
                   trim(exec.stderr))>>

\* C24: if the timeout timer fires before the process has closed, the
\* invocation eventually returns the aborted outcome, whatever the command
\* and its child processes do.
C24_TimeoutReturnsAborted ==
  (exec.timedOut /\ exec.pid # 0 /\ ~exec.closed /\ ~exec.resolved)
  ~> (exec.results # <<>> /\ "aborted" \in DOMAIN exec.results[1])

\* C25: when stdout or stderr exceeds the cap, every process of the command
\* gets the kill signal and the invocation eventually resolves with the
\* aborted outcome, also when the process does not close.
C25_OutputCapForcesTermination ==
  LET overCap == \/ exec.stdout.len > MAX_BUFFER
                 \/ exec.stderr.len > MAX_BUFFER
  IN  /\ (overCap /\ ~exec.resolved)
           ~> (exec.results # <<>> /\ "aborted" \in DOMAIN exec.results[1])
      /\ overCap ~> (exec.alive \subseteq exec.signalled)

\* C26: called with a signal that is already aborted, the invocation
\* resolves with the aborted outcome with empty stdout and stderr, spawns no
\* process and arms no timer or listener.
C26_PreAbortedSpawnsNothing ==
  (input.signal = "aborted" /\ exec.pc = "returned") =>
    /\ exec.results = <<Aborted("ABORTED: User pressed ESC", NoText, NoText)>>
    /\ ~exec.spawned
    /\ exec.pid = 0 /\ exec.alive = {} /\ exec.signalled = {}
    /\ ~exec.timeoutHandle /\ ~exec.graceTimer /\ ~exec.listener
    /\ exec.abortHandler = "idle"

C26_Witness ==
  /\ input.signal = "aborted"
  /\ input.timeout > 0
  /\ input.par # <<>>
  /\ exec.pc = "returned"
  /\ exec.resolved

\* C28: for every allow-list configuration a call to edit_file or
\* execute_command is dispatched only after a permission request for that
\* call was shown and granted.
C28_SensitiveToolsAlwaysAsk ==
  \A i \in Events("dispatch") :
    NameOfCall(trace[i].id) \in {"edit_file", "execute_command"} =>
      \E r \in Events("request"), g \in Events("grant") :
        /\ r < g /\ g < i
        /\ trace[r].id = trace[i].id /\ trace[g].id = trace[i].id

\* C29: when validateToolName or parseToolArguments rejects a proposed call,
\* the loop appends the synthetic tool message with that call's toolCallId
\* right after preprocessing, no permission request and no dispatch ever
\* carries that call's id, and unless the call is the last of its assistant
\* message the next thing the loop does is preprocess the call after it.
C29_RejectedCallAnsweredAndSkipped ==
  \A i \in Events("preprocess") :
    LET h == conversationHistory
        c == CHOOSE c \in CallsOf(h) :
               h[c[1]].toolCalls[c[2]].id = trace[i].id
        calls == h[c[1]].toolCalls
        call == calls[c[2]]
    IN (~validateToolName(call.name) \/ ~parseToolArguments(call.arguments)) =>
         /\ i + 1 \in DOMAIN trace
         /\ trace[i + 1] = Ev("toolmsg", call.id)
         /\ \E j \in DOMAIN h :
              /\ j > c[1]
              /\ h[j].role = "tool"
              /\ h[j].toolCallId = call.id
              /\ h[j].content \in {"invalid tool name", "invalid json"}
         /\ \A j \in Events("request") \cup Events("dispatch") :
              trace[j].id # call.id
         /\ c[2] < Len(calls) =>
              /\ i + 2 \in DOMAIN trace
              /\ trace[i + 2] = Ev("preprocess", calls[c[2] + 1].id)

\* a two-call message whose first call was rejected and whose second call
\* was dispatched
C29_Witness ==
  /\ Len(toolCalls) = 2
  /\ ~validateToolName(toolCalls[1].name)
     \/ ~parseToolArguments(toolCalls[1].arguments)
  /\ \E i \in Events("toolmsg"), j \in Events("dispatch") :
       i < j /\ trace[i].id = toolCalls[1].id /\ trace[j].id = toolCalls[2].id

\* C30: the ToolContext handed to every dispatched tool is the one rebuilt
\* from the transcript as it stands at the dispatch: allToolCalls lists, in
\* transcript order, exactly the (name, args) of the tool messages before
\* the call's own answer that have toolArgs and a content that parses to a
\* value without an error key, results of earlier calls of the same
\* assistant message included; lastToolCall is the last of them; and only
\* results of tools are listed, never a validation, denial, abort or
\* orphan-heal message.
C30_ContextRebuiltAtDispatch ==
  /\ Len(contexts) = Cardinality(Events("dispatch"))
  /\ \A i \in Events("dispatch") :
       LET ctx == contexts[Cardinality({j \in Events("dispatch") : j <= i})]
           answers == {j \in DOMAIN conversationHistory :
                         /\ conversationHistory[j].role = "tool"
                         /\ conversationHistory[j].toolCallId = trace[i].id}
           n == IF answers = {} THEN Len(conversationHistory)
                ELSE (CHOOSE j \in answers : \A a \in answers : j <= a) - 1
           Listed(m) ==
             /\ m.role = "tool"
             /\ m.toolArgs.defined
             /\ ~ResultParseThrows(m.content)
             /\ ResultError(m.content) = "undefined"
           listed == SelectSeq(SubSeq(ToolResults(conversationHistory), 1, n),
                               Listed)
       IN  /\ Len(ctx.allToolCalls) = Len(listed)
           /\ \A x \in 1..Len(listed) :
                ctx.allToolCalls[x] =
                  [name |-> listed[x].name, args |-> listed[x].toolArgs]
           /\ ctx.lastToolCall =
                IF listed = <<>> THEN <<>>
                ELSE <<[name |-> listed[Len(listed)].name,
                        args |-> listed[Len(listed)].toolArgs]>>
           /\ Len(ctx.allToolCalls) =
                Cardinality({j \in 1..n :
                               /\ conversationHistory[j].role = "tool"
                               /\ conversationHistory[j].content = "result ok"})

\* the second call of an assistant message is dispatched with the result of
\* the first call as the only entry, while the transcript also holds a
\* denial from an earlier turn
C30_Witness ==
  /\ Len(toolCalls) = 2
  /\ Len(contexts) = 2
  /\ Len(contexts[2].allToolCalls) = 1
  /\ \E i \in Events("dispatch") : trace[i].id = toolCalls[2].id
  /\ \E j, k \in DOMAIN conversationHistory :
       /\ conversationHistory[j].role = "tool"
       /\ conversationHistory[j].content = "permission denied"
       /\ conversationHistory[k].role = "tool"
       /\ conversationHistory[k].content = "result ok"
       /\ conversationHistory[k].toolCallId = toolCalls[1].id

\* C31: healOrphanedToolCalls(T) is T with, directly after every assistant
\* message that announces ids without a later tool message, exactly one
\* synthetic error tool message per such id, carrying the id and a function
\* name announced for it; every message of T is kept, in order, and nothing
\* else is inserted (so a transcript without orphans comes back unchanged).
C31_HealInsertsOnePerOrphan ==
  output.op = "healOrphanedToolCalls" =>
    LET T == input.messages
        H == output.messages
        Orphans(k) ==
          {id \in 1..MaxIds :
             /\ T[k].role = "assistant"
             /\ \E c \in DOMAIN T[k].toolCalls : T[k].toolCalls[c].id = id
             /\ AnswersAfter(T, k, id) = {}}
        pos(i) ==
          i + Cardinality({p \in (1..(i - 1)) \X (1..MaxIds) :
                             p[2] \in Orphans(p[1])})
    IN  /\ Len(H) = pos(Len(T) + 1) - 1
        /\ \A i \in DOMAIN T :
             /\ H[pos(i)] = T[i]
             /\ \A id \in Orphans(i) :
                  Cardinality({j \in (pos(i) + 1)..(pos(i + 1) - 1) :
                                 H[j].toolCallId = id}) = 1
             /\ \A j \in (pos(i) + 1)..(pos(i + 1) - 1) :
                  /\ H[j].role = "tool"
                  /\ H[j].content = "orphaned"
                  /\ \E c \in DOMAIN T[i].toolCalls :
                       /\ T[i].toolCalls[c].id = H[j].toolCallId
                       /\ T[i].toolCalls[c].name = H[j].name

\* C32: when the first model call of a turn is about to be made, the
\* transcript ends with the new user message and validating it does not
\* report a tool call without a tool response, whatever way the turns
\* before it ended.
C32_NewTurnNotRejectedForOrphans ==
  (pc = "modelCall" /\ loopCount = 1) =>
    /\ Last(conversationHistory) = UserMsg
    /\ <<"no tool response", 0>> \notin
         validateMessages(<<SystemPrompt>> \o conversationHistory).errors

\* C33: in search/replace mode edit_file writes the file exactly when
\* old_content occurs at exactly one position of the current content, and
\* what it writes is the current content with that occurrence replaced by
\* new_content, character for character; with no occurrence or several it
\* returns an error and leaves the disk as it was.
C33_SearchReplaceVerbatim ==
  output.op = "search and replace" =>
    LET current == input.content
        old == input.old_content
        Occurrences ==
          {i \in 1..(Len(current) - Len(old) + 1) :
             SubSeq(current, i, i + Len(old) - 1) = old}
        at == CHOOSE i \in Occurrences : TRUE
    IN  IF Cardinality(Occurrences) = 1
        THEN /\ output.content = "search_replace"
             /\ output.disk[Cwd \o <<"a.txt">>].content =
                  SubSeq(current, 1, at - 1) \o input.new_content
                  \o SubSeq(current, at + Len(old), Len(current))
        ELSE /\ output.content # "search_replace"
             /\ output.disk = output.before

\* C34: an ignore pattern that contains '*' is matched by the simple-glob
\* rules ('*' any run of characters, '?' one character, every '.' a literal
\* dot) against the basename and the relative path: a path is reported
\* ignored by such a pattern only if one of the two matches under those
\* rules.
C34_IgnoreGlobBySimpleRules ==
  (/\ output.op = "matchesGitignorePattern"
   /\ includes(input.pattern, <<"*">>)
   /\ Last(input.pattern) # "/"
   /\ output.ignored) =>
    \/ matchesSimplePattern(basename(input.filePath), input.pattern)
    \/ matchesSimplePattern(input.filePath, input.pattern)

\* C35: once an invocation of executeExecuteCommand has produced its result
\* because its process closed by itself or failed to spawn (a result that
\* is only produced while nothing has been cancelled or killed), no later
\* step sends a kill signal to the pid of that invocation nor to a process
\* looked up from it, whatever is cancelled afterwards.
C35_NoKillAfterResult ==
  [][(\E k \in DOMAIN exec.results :
        \/ "exitCode" \in DOMAIN exec.results[k]
        \/ /\ "aborted" \notin DOMAIN exec.results[k]
           /\ exec.results[k].error = "Failed to execute command")
      => exec'.signalled = exec.signalled]_vars

\* C36: a natural-exit result reports exitCode 0 only if the process
\* exited with code 0; a process that ended without an exit code (killed
\* by a signal from outside) is not reported as exitCode 0.
C36_ExitCodeZeroOnlyIfExitedZero ==
  \A k \in DOMAIN exec.results :
    ("exitCode" \in DOMAIN exec.results[k] /\ exec.results[k].exitCode = 0)
      => exec.exitCode = 0

\* C37: after a turn that ended with the abort outcome, a tool call whose
\* tool ran to completion (it was dispatched and its result was appended
\* to the loop's history) is not recorded in the transcript with the
\* synthetic "Operation aborted by user" result, and its own result is
\* kept there.
C37_ExecutedCallKeepsResult ==
  (pc = "idle" /\ EndedWith("end abort")) =>
    \A i \in DOMAIN conversationHistory :
      LET result == conversationHistory[i] IN
      (/\ result.role = "tool"
       /\ result.content = "result ok"
       /\ \E d \in ToolEvents("dispatch") : trace[d].id = result.toolCallId)
        => /\ \E j \in DOMAIN messages : messages[j] = result
           /\ ~\E j \in DOMAIN messages :
                 messages[j] = ToolMsg(result.name, "aborted",
                                       result.toolCallId)

C39_BuilderRunsOnlyOfferedTools ==
  (output.op = "builder dispatch" /\ output.executor # "none") =>
    output.toolName \in exploratoryTools

====
